---------------------------- MODULE Spec2Model ----------------------------
(***************************************************************************)
(* A model of the CGNTG fuzz loop (src/src/fuzzer.rs) and of the policy    *)
(* functions of its scheduler (src/src/feedback/schedule.rs).              *)
(*                                                                         *)
(* The loop is one sequential process; pc is its position:                 *)
(*   "top"      head of the round loop of fuzz_loop (is_converge check)    *)
(*   "gen"      head of the while loop of generate_until_n_success /       *)
(*              generate_and_validate_api_sequences                        *)
(*   "feedback" the generation step has returned; the rest of the round    *)
(*   "minimize" the round loop was left, corpus minimization is next       *)
(*   "done"     fuzz_loop returned Ok                                      *)
(*   "error"    fuzz_loop returned Err (an external call failed)           *)
(* The LLM handler, the validator and the coverage of a program are the    *)
(* environment: their answers are drawn with \E from small sets.           *)
(***************************************************************************)
EXTENDS Integers, Sequences, FiniteSets, TLC

(***************************************************************************)
(* Bounds of the model.                                                    *)
(***************************************************************************)
\* candidates the handler returns in one run, its full rejected samples aside
MaxSeedId == 2
\* answers of the handler in one run that are a full sample of rejected programs
MaxBulk == 1
\* rounds started in one run
MaxLoop == 2
\* largest value drawn for fuzz_round_succ
MaxRoundSucc == 2
\* largest value drawn for fuzz_converge_round
MaxConverge == 2
\* largest batch the handler returns
MaxBatch == 2
\* largest argument drawn for should_shuffle in SpecShuffle
MaxShuffleArg == 21
\* largest quiet_round an earlier, interrupted run has logged
MaxPrevQuiet == 1
\* input programs of a fusion run
MaxPrograms == 7
\* batch size of a fusion run
MaxFusionBatch == 3
\* pieces a driver text is built from
MaxPieces == 3
\* input positions whose scratch names are compared, next to the large ones
MaxPosition == 9
\* core directories compile finds
MaxCores == 3
\* programs of an earlier fusion run whose trees are still there
MaxEarlier == 2
\* largest value of an exec or prompt counter
MaxCount == 2
\* largest exponent given to compute_energy
MaxExponent == 2
\* longest combination asked for
MaxCombLen == 4
\* accepted programs of the round whose feedback is followed
MaxFeedbackPrograms == 2
\* call expressions of a program handed to extract_2gram_pairs
MaxCalls == 4

(***************************************************************************)
(* Program constants.                                                      *)
(***************************************************************************)
DEFAULT_COMB_LEN == 5
\* Config.n_sample: the programs sampled per request (its default)
N_SAMPLE == 10
\* width of the number in a scratch name (clone_programs)
NAME_WIDTH == 6
\* width of the number in a core directory name (get_core_dir)
CORE_WIDTH == 3

\* the API catalog (get_func_gadgets): DEFAULT_COMB_LEN distinct names
APIs == {"a1", "a2", "a3", "a4", "a5"}
\* the branches of the library a program may cover
Branches == {"b1"}
\* call-expression sequences extract_function_calls may find in a program
CallSeqs == {<<"a1">>, <<"a1", "a2">>, <<"a2", "printf", "a2">>}
\* lengths rand_comb_len may return
CombLens == {DEFAULT_COMB_LEN}
\* the branches of the library that belong to each API; no program reaches "b0"
ApiBranches(a) == IF a = "a1" THEN Branches \cup {"b0"} ELSE {}

Modes == {"FuzzDriver", "ApiCombination"}

VARIABLES
    config,                 \* Config: generation_mode, fuzz_round_succ, ...
    pc,                     \* position of fuzz_loop
    quiet_round,            \* Fuzzer.quiet_round
    seed_id,                \* Deopt.seed_id
    succ_programs,          \* succ_programs of the generation step
    rc_succ, rc_total,      \* ProgramLogger round counters
    loop_cnt,               \* loop_cnt of fuzz_loop
    has_checked,            \* has_checked of fuzz_loop
    prompt,                 \* the Prompt: its combination and how it was chosen
    global_cov,             \* Observer: merged branch coverage
    discovered_api_pairs,   \* Observer.discovered_api_pairs
    energies,               \* Schedule.seeds: API name -> energy
    seed_queue,             \* Deopt.seed_queue (ids)
    err_round,              \* ids persisted by save_err_program in this round
    n_err_saved,            \* programs persisted by save_err_program
    n_succ_saved,           \* programs persisted by save_succ_program
    \* history of the run
    assigned,               \* every id handed to a candidate, in order
    n_accepted,             \* candidates pushed to succ_programs so far
    last_accepted,          \* the id of the last of them (-1: none yet)
    fed_round,              \* ids whose coverage / pairs the last feedback used
    round_succ, round_total,\* candidates accepted / validated in this round
    last_round,             \* what the last completed round observed
    quiet_streak,           \* consecutive accepted rounds without new signal
    nonew_streak,           \* consecutive rounds without new signal
    left_by,                \* how the round loop was left
    gen_tick,               \* parity of the handler.generate calls
    n_bulk,                 \* full rejected samples the handler has returned
    summary,                \* the last "[Mutate Loop]" round summary logged
    minimize_calls,         \* the corpus minimizations invoked, in order
    prev_run,               \* what an earlier, interrupted run left behind
    \* FusionBatcher (CNTGProgram)
    cpc,                    \* position of the fusion run
    cntg,                   \* CNTGProgram: programs, batch
    driver_dir,             \* the scratch (driver) directory: a set of files
    cntg_dir,               \* the fused-output directory: a set of core directories
    synth,                  \* the locals of synthesis
    workers,                \* compile: the worker thread of each core directory
    compile,                \* compile: its own thread
    results,                \* what fuse_seeds got back from each stage, in order
    \* code followed statement by statement
    assemble,               \* the locals of assemble_high_energy_combiantion
    feedback,               \* the pair feedback of a round and the lock it takes
    harness,                \* main of the harness: its stage and its exit code
    \* a policy function applied on its own (SpecShuffle)
    call,                   \* the function and its arguments
    ret                     \* <<result>>, or <<>> while not applied yet

vars == <<config, pc, quiet_round, seed_id, succ_programs, rc_succ, rc_total,
          loop_cnt, has_checked, prompt, global_cov, discovered_api_pairs,
          energies, seed_queue, err_round, n_err_saved, n_succ_saved,
          assigned, n_accepted, last_accepted, fed_round, round_succ,
          round_total, last_round, quiet_streak, nonew_streak, left_by,
          gen_tick, n_bulk, summary, minimize_calls, prev_run, cpc, cntg,
          driver_dir, cntg_dir, synth, workers, compile, results, assemble,
          feedback, harness, call, ret>>

\* the code followed statement by statement
locals == <<assemble, feedback, harness>>

\* the fuzz loop leaves these alone
pure == <<call, ret, prev_run, locals>>

\* the state of a fusion run
fusion == <<cpc, cntg, driver_dir, cntg_dir, synth, workers, compile, results>>

\* the state of compile
compiling == <<workers, compile>>

\* what the loop reports of itself
report == <<summary, minimize_calls>>

(***************************************************************************)
(* Helpers.                                                                *)
(***************************************************************************)
Range(s) == {s[i] : i \in 1..Len(s)}

RECURSIVE SeqsUpTo(_, _)
SeqsUpTo(S, n) ==
    IF n = 0 THEN {<<>>}
    ELSE LET shorter == SeqsUpTo(S, n - 1)
         IN  shorter \cup {Append(s, x) : s \in {t \in shorter : Len(t) = n - 1}, x \in S}

Configs ==
    [generation_mode        : Modes,
     fuzz_round_succ        : 1..MaxRoundSucc,
     fuzz_converge_round    : 0..MaxConverge,
     recheck                : BOOLEAN,
     disable_power_schedule : BOOLEAN]

(***************************************************************************)
(* Scheduler policy (schedule.rs).                                         *)
(***************************************************************************)
should_shuffle_never_on_zero(succ, total) ==
    IF succ = 0 THEN FALSE
    ELSE succ * 10 < total

should_shuffle(succ, total) ==
    IF succ = 0 /\ total >= 10 THEN TRUE
    ELSE IF succ = 0 /\ total < 10 THEN FALSE
    ELSE IF succ * 10 < total THEN TRUE
    ELSE FALSE

\* an energy is the rational <<numerator, denominator>>
Positive(e) == e[1] > 0

RECURSIVE Pow(_, _)
Pow(b, n) == IF n = 0 THEN 1 ELSE b * Pow(b, n - 1)

\* Schedule::new: exponent
ScheduleExponent == 1

\* get_exec_counter_value(name).unwrap_or(0), get_prompt_counter_value(name).unwrap_or(0)
get_exec_counter_value(a) == 0
get_prompt_counter_value(a) == 0

\* Seed::compute_energy, the coverage given as <<covered, total>>
compute_energy(coverage, exec_count, prompt_count, exponent) ==
    LET top    == coverage[2] - coverage[1]
        count  == 1 + exec_count
        round  == 1 + prompt_count
        bottom == Pow(count * round, exponent)
    IN  <<top, coverage[2] * bottom>>

\* Observer::compute_library_api_coverage over the merged coverage
compute_library_api_coverage(cov) ==
    [a \in APIs |->
        IF ApiBranches(a) = {} THEN <<0, 1>>
        ELSE <<Cardinality(ApiBranches(a) \cap cov), Cardinality(ApiBranches(a))>>]

\* Schedule::update_energies
update_energies(api_coverage) ==
    [a \in APIs |-> compute_energy(api_coverage[a], get_exec_counter_value(a),
                                   get_prompt_counter_value(a), ScheduleExponent)]

\* Schedule::initialize_energies_for_api_mode, Seed::new_for_api_mode
initialize_energies_for_api_mode == [a \in APIs |-> <<1, 1>>]

update_energies_from_api_pairs_dividing(seeds, api_pairs) ==
    IF api_pairs = {} THEN seeds
    ELSE [a \in DOMAIN seeds |->
            <<seeds[a][1],
              seeds[a][2] * (1 + Cardinality({p \in api_pairs : p[1] = a})
                               + Cardinality({p \in api_pairs : p[2] = a}))>>]

\* Schedule::update_energies_from_api_pairs
update_energies_from_api_pairs(seeds, api_pairs) ==
    IF api_pairs = {} THEN seeds
    ELSE [a \in DOMAIN seeds |->
            <<seeds[a][1]
                + seeds[a][2] * Cardinality({p \in api_pairs : p[1] = a})
                + seeds[a][2] * Cardinality({p \in api_pairs : p[2] = a}),
              seeds[a][2]>>]

\* a scheduler without records (Schedule::new)
NoSeeds == [a \in {} |-> <<0, 1>>]

\* counter.get(name).unwrap_or(0)
unwrap_or_0(counter, name) == IF name \in DOMAIN counter THEN counter[name] ELSE 0

\* what an operation of the scheduler leaves: whether it panicked, the
\* records after it and the value it returned
Outcome(panicked, seeds, value) ==
    [panicked |-> panicked, seeds |-> seeds, value |-> value]

Schedule_update_energies_keeping(seeds, api_coverage, exec_counter, prompt_counter) ==
    IF \E a \in APIs : a \notin DOMAIN api_coverage
    THEN Outcome(TRUE, NoSeeds, <<>>)
    ELSE Outcome(FALSE,
                 [a \in APIs \cup DOMAIN seeds |->
                     IF a \in DOMAIN seeds THEN seeds[a]
                     ELSE compute_energy(api_coverage[a], unwrap_or_0(exec_counter, a),
                                         unwrap_or_0(prompt_counter, a), ScheduleExponent)],
                 <<>>)

Schedule_update_energies_defaulting(seeds, api_coverage, exec_counter, prompt_counter) ==
    Outcome(FALSE,
            [a \in APIs |->
                compute_energy(IF a \in DOMAIN api_coverage THEN api_coverage[a] ELSE <<0, 1>>,
                               unwrap_or_0(exec_counter, a),
                               unwrap_or_0(prompt_counter, a), ScheduleExponent)],
            <<>>)

\* Schedule::update_energies on a scheduler holding seeds, with the exec and
\* prompt counters as they are at the call: the records are cleared and one
\* is made per catalog API; a catalog API without coverage panics (unwrap)
\* and the process ends with its scheduler
Schedule_update_energies(seeds, api_coverage, exec_counter, prompt_counter) ==
    IF \E a \in APIs : a \notin DOMAIN api_coverage
    THEN Outcome(TRUE, NoSeeds, <<>>)
    ELSE Outcome(FALSE,
                 [a \in APIs |->
                     compute_energy(api_coverage[a], unwrap_or_0(exec_counter, a),
                                    unwrap_or_0(prompt_counter, a), ScheduleExponent)],
                 <<>>)

\* Schedule::get_seed_by_name: the Option it returns
get_seed_by_name(seeds, name) ==
    IF name \in DOMAIN seeds THEN <<seeds[name]>> ELSE <<>>

\* weighted_choose over the energies: the indices it may return
weighted_choose(weights) ==
    IF \E i \in 1..Len(weights) : Positive(weights[i])
    THEN {i - 1 : i \in {j \in 1..Len(weights) : Positive(weights[j])}}
    ELSE {i - 1 : i \in 1..Len(weights)}

\* Schedule::choose_low_energy_api: the outcomes it may have
choose_low_energy_api(seeds, combination) ==
    IF \E i \in 1..Len(combination) : combination[i] \notin DOMAIN seeds
    THEN {Outcome(TRUE, seeds, <<>>)}
    ELSE {Outcome(FALSE, seeds, <<i>>) :
            i \in weighted_choose([j \in 1..Len(combination) |-> seeds[combination[j]]])}

\* the APIs weighted_choose can draw: those of positive energy, or all of
\* them when every energy is zero
Drawable(seeds) ==
    IF \E a \in DOMAIN seeds : Positive(seeds[a])
    THEN {a \in DOMAIN seeds : Positive(seeds[a])}
    ELSE DOMAIN seeds

\* the combinations of len distinct names of S
Combinations(S, len) == {c \in SUBSET S : Cardinality(c) = len}

\* rand_choose_combination(len): what it may return
rand_choose_combination(len) == Combinations(APIs, len)

\* Schedule::assemble_high_energy_combiantion: what it may return
assemble_high_energy_combiantion(seeds) ==
    UNION {Combinations(Drawable(seeds), len) : len \in CombLens}

\* mutation::mutate_prompt: a combination of the same length
mutate_prompt_combination(comb) == Combinations(APIs, Cardinality(comb))

\* should_deterministic_mutate: the coins prob_coin may give
should_deterministic_mutate(queue) ==
    IF Cardinality(queue) = 0 THEN {FALSE} ELSE BOOLEAN

(***************************************************************************)
(* Fuzzer (fuzzer.rs).                                                     *)
(***************************************************************************)
is_converge_strict(q, cfg) == q > cfg.fuzz_converge_round

is_converge(q, cfg) == q >= cfg.fuzz_converge_round

is_stuck_always(len) == TRUE

is_stuck(len) == len = 0

should_recheck_at_any_round(q, cfg) == cfg.recheck

should_recheck(q, cfg) ==
    q >= cfg.fuzz_converge_round \div 2 /\ cfg.recheck

\* Deopt::inc_seed_id: the id handed out and the counter after it
inc_seed_id(sid) == [id |-> sid, seed_id |-> sid + 1]

\* `for program in &mut programs { program.id = inc_seed_id() }` over n programs
RECURSIVE assign_ids(_, _)
assign_ids_once_per_batch(sid, n) ==
    [ids |-> [i \in 1..n |-> sid], seed_id |-> IF n = 0 THEN sid ELSE sid + 1]

assign_ids_from_zero(sid, n) ==
    [ids |-> [i \in 1..n |-> i - 1], seed_id |-> sid + n]

assign_ids(sid, n) ==
    IF n = 0 THEN [ids |-> <<>>, seed_id |-> sid]
    ELSE LET before == assign_ids(sid, n - 1)
             next   == inc_seed_id(before.seed_id)
         IN  [ids |-> Append(before.ids, next.id), seed_id |-> next.seed_id]

\* the split of a validated batch: check_res[i] is TRUE when programs[i]
\* has no error
RECURSIVE classify(_, _)
classify_keeps_all(programs, check_res) ==
    [succ |-> programs,
     err  |-> {programs[i].id : i \in {j \in 1..Len(programs) : ~check_res[j]}}]

classify(programs, check_res) ==
    IF Len(programs) = 0 THEN [succ |-> <<>>, err |-> {}]
    ELSE LET n    == Len(programs)
             head == classify(SubSeq(programs, 1, n - 1), SubSeq(check_res, 1, n - 1))
         IN  IF check_res[n]
             THEN [succ |-> Append(head.succ, programs[n]), err |-> head.err]
             ELSE [succ |-> head.succ, err |-> head.err \cup {programs[n].id}]

extract_2gram_pairs_reversed(calls) ==
    [i \in 1..(IF Len(calls) < 2 THEN 0 ELSE Len(calls) - 1) |-> <<calls[i + 1], calls[i]>>]

\* Fuzzer::extract_2gram_pairs
extract_2gram_pairs(calls) ==
    [i \in 1..(IF Len(calls) < 2 THEN 0 ELSE Len(calls) - 1) |-> <<calls[i], calls[i + 1]>>]

\* what the handler and the validator together may say of one candidate
Rejected == [ok |-> FALSE, cov |-> {}, calls |-> <<>>]

Candidates(mode) ==
    IF mode = "FuzzDriver"
    THEN {Rejected} \cup {[ok |-> TRUE, cov |-> c, calls |-> <<>>] : c \in SUBSET Branches}
    ELSE {Rejected} \cup {[ok |-> TRUE, cov |-> {}, calls |-> s] : s \in CallSeqs}

\* handler.generate: the batches it may return, the short ones ...
BatchesDriver == SeqsUpTo(Candidates("FuzzDriver"), MaxBatch)
BatchesApi == SeqsUpTo(Candidates("ApiCombination"), MaxBatch)
\* ... and a full sample of which the validator rejects every program
BulkBatch == [i \in 1..N_SAMPLE |-> Rejected]

\* ProgramLogger: log_succ / log_err over a validated batch
log_batch(succ, total, check_res) ==
    [succ  |-> succ + Cardinality({i \in 1..Len(check_res) : check_res[i]}),
     total |-> total + Len(check_res)]

\* the for loop of fuzz_loop over the accepted programs in FuzzDriver mode:
\* has_new as the code leaves it, any_new whether some program had a new branch
RECURSIVE driver_programs(_, _)
driver_programs(programs, cov) ==
    IF Len(programs) = 0
    THEN [has_new |-> FALSE, any_new |-> FALSE, cov |-> cov, queue |-> {}]
    ELSE LET n       == Len(programs)
             before  == driver_programs(SubSeq(programs, 1, n - 1), cov)
             program == programs[n]
             unique  == program.cov \ before.cov
         IN  [has_new |-> unique # {},
              any_new |-> before.any_new \/ unique # {},
              cov     |-> before.cov \cup program.cov,
              queue   |-> IF unique # {} THEN before.queue \cup {program.id}
                          ELSE before.queue]

\* the for loop of fuzz_loop over the accepted programs in ApiCombination
\* mode: the pairs inserted into discovered_api_pairs in this round
RECURSIVE api_programs(_, _)
api_programs_recounting(programs, discovered) ==
    LET pairs == UNION {Range(extract_2gram_pairs(programs[i].calls)) : i \in 1..Len(programs)}
    IN  [discovered |-> discovered \cup pairs, round_new |-> pairs]

api_programs(programs, discovered) ==
    IF Len(programs) = 0
    THEN [discovered |-> discovered, round_new |-> {}]
    ELSE LET n      == Len(programs)
             before == api_programs(SubSeq(programs, 1, n - 1), discovered)
             pairs  == Range(extract_2gram_pairs(programs[n].calls))
         IN  [discovered |-> before.discovered \cup pairs,
              round_new  |-> before.round_new \cup (pairs \ before.discovered)]

ProgramIds(programs) == {programs[i].id : i \in 1..Len(programs)}

(***************************************************************************)
(* The state after Fuzzer::new.                                            *)
(***************************************************************************)
NoPrompt == [comb |-> {}, by |-> "none"]

NoCall == [op |-> "none", args |-> <<>>]

NoSummary == [loop |-> 0, quiet_round |-> 0]

NoRun == [quiet_round |-> 0, energies |-> <<>>]

\* the states an interrupted run may have reached: its last logged
\* quiet_round and the energies of its scheduler
PrevRuns ==
    {[quiet_round |-> q, energies |-> [a \in APIs |-> <<IF a = "a1" THEN 2 ELSE 1, 1>>]] :
        q \in 1..MaxPrevQuiet}

NoSynthesis == [drivers |-> <<>>, i |-> 0, batch |-> <<>>, batch_id |-> <<>>, core_id |-> 0]

\* missing: the positions of the input programs that cannot be read
NoCNTGProgram == [programs |-> <<>>, batch |-> 0, missing |-> {}]

\* compile is not running
NoCompile == [pc |-> "idle", handles |-> <<>>, joined |-> 0, result |-> "none"]

NoAssemble == [pc |-> "idle"]
NoFeedback == [pc |-> "idle"]
NoHarness == [pc |-> "idle"]

\* none of them is running
NoLocals ==
    /\ assemble = NoAssemble
    /\ feedback = NoFeedback
    /\ harness = NoHarness

\* no CNTGProgram exists
NoFusion ==
    /\ cpc = "idle"
    /\ cntg = NoCNTGProgram
    /\ driver_dir = {}
    /\ cntg_dir = {}
    /\ synth = NoSynthesis
    /\ workers = <<>>
    /\ compile = NoCompile
    /\ results = <<>>

\* the `match get_config().generation_mode` after the round loop
minimize_strategy_always_branch(mode) == "minimize"

minimize_strategy(mode) ==
    IF mode = "FuzzDriver" THEN "minimize" ELSE "minimize_by_api_pairs"

\* a Fuzzer that has not run yet
FreshButPairs ==
    /\ pc = "start"
    /\ quiet_round = 0
    /\ seed_id = 0
    /\ succ_programs = <<>>
    /\ rc_succ = 0
    /\ rc_total = 0
    /\ loop_cnt = 0
    /\ has_checked = FALSE
    /\ prompt = NoPrompt
    /\ global_cov = {}
    /\ energies = <<>>
    /\ seed_queue = {}
    /\ err_round = {}
    /\ n_err_saved = 0
    /\ n_succ_saved = 0
    /\ assigned = <<>>
    /\ n_accepted = 0
    /\ last_accepted = -1
    /\ fed_round = {}
    /\ round_succ = 0
    /\ round_total = 0
    /\ last_round = "none"
    /\ quiet_streak = 0
    /\ nonew_streak = 0
    /\ left_by = "none"
    /\ gen_tick = 0
    /\ n_bulk = 0
    /\ summary = NoSummary
    /\ minimize_calls = <<>>

Fresh ==
    /\ FreshButPairs
    /\ discovered_api_pairs = {}

Init ==
    /\ config \in Configs
    /\ Fresh
    /\ call = NoCall
    /\ ret = <<>>
    /\ prev_run = NoRun
    /\ NoLocals
    /\ NoFusion

disk == <<err_round, n_err_saved, n_succ_saved>>

history == <<assigned, n_accepted, last_accepted, fed_round, round_succ,
             round_total, last_round, quiet_streak, nonew_streak, left_by,
             gen_tick, n_bulk>>

\* everything of the Fuzzer and of the functions applied on their own
fuzzer == <<config, pc, quiet_round, seed_id, succ_programs, rc_succ, rc_total,
            loop_cnt, has_checked, prompt, global_cov, discovered_api_pairs,
            energies, seed_queue, disk, history, report, pure>>

(***************************************************************************)
(* fuzz_loop up to its round loop: the initial Prompt and, in              *)
(* ApiCombination mode, the initial energies.                              *)
(***************************************************************************)
Start ==
    /\ pc = "start"
    /\ \E len \in CombLens : \E comb \in rand_choose_combination(len) :
         prompt' = [comb |-> comb, by |-> "random"]
    /\ energies' = IF config.generation_mode = "ApiCombination"
                   THEN initialize_energies_for_api_mode
                   ELSE energies
    /\ pc' = "top"
    /\ UNCHANGED <<pure, fusion, report, config, quiet_round, seed_id, succ_programs, rc_succ,
                   rc_total, loop_cnt, has_checked, global_cov,
                   discovered_api_pairs, seed_queue, disk, history>>

(***************************************************************************)
(* The head of the round loop: `if self.is_converge() { break; }`.         *)
(***************************************************************************)
Converge ==
    /\ pc = "top"
    /\ is_converge(quiet_round, config)
    /\ pc' = "minimize"
    /\ left_by' = "converge"
    /\ UNCHANGED <<pure, fusion, report, config, quiet_round, seed_id, succ_programs, rc_succ,
                   rc_total, loop_cnt, has_checked, prompt, global_cov,
                   discovered_api_pairs, energies, seed_queue, disk, assigned,
                   n_accepted, last_accepted, fed_round, round_succ,
                   round_total, last_round, quiet_streak, nonew_streak,
                   gen_tick, n_bulk>>

\* the round goes on: the generation step starts with no accepted program
BeginRound ==
    /\ pc = "top"
    /\ ~is_converge(quiet_round, config)
    /\ loop_cnt < MaxLoop
    /\ succ_programs' = <<>>
    /\ err_round' = {}
    /\ fed_round' = {}
    /\ round_succ' = 0
    /\ round_total' = 0
    /\ pc' = IF Len(succ_programs') < config.fuzz_round_succ THEN "gen" ELSE "feedback"
    /\ UNCHANGED <<pure, fusion, report, config, quiet_round, seed_id, rc_succ, rc_total, loop_cnt,
                   has_checked, prompt, global_cov, discovered_api_pairs,
                   energies, seed_queue, n_err_saved, n_succ_saved, assigned,
                   n_accepted, last_accepted, last_round, quiet_streak,
                   nonew_streak, left_by, gen_tick, n_bulk>>

(***************************************************************************)
(* One iteration of the while loop of the generation step.                 *)
(***************************************************************************)
GenerateStep(batch) ==
    LET n         == Len(batch)
        given     == assign_ids(seed_id, n)
        programs  == [i \in 1..n |->
                        [id |-> given.ids[i], cov |-> batch[i].cov, calls |-> batch[i].calls]]
        check_res == [i \in 1..n |-> batch[i].ok]
        split     == classify(programs, check_res)
        rc        == log_batch(rc_succ, rc_total, check_res)
    IN  /\ seed_id' = given.seed_id
        /\ succ_programs' = succ_programs \o split.succ
        /\ err_round' = err_round \cup split.err
        /\ n_err_saved' = n_err_saved + Cardinality(split.err)
        /\ rc_succ' = rc.succ
        /\ rc_total' = rc.total
        /\ pc' = IF should_shuffle(rc.succ, rc.total) THEN "feedback"
                 ELSE IF Len(succ_programs') < config.fuzz_round_succ THEN "gen"
                 ELSE "feedback"
        /\ assigned' = assigned \o given.ids
        /\ n_accepted' = n_accepted + Len(split.succ)
        /\ last_accepted' = IF Len(split.succ) = 0 THEN last_accepted
                            ELSE split.succ[Len(split.succ)].id
        /\ round_succ' = round_succ + Cardinality({i \in 1..n : batch[i].ok})
        /\ round_total' = round_total + n
        /\ gen_tick' = 1 - gen_tick
        /\ n_bulk' = IF batch = BulkBatch THEN n_bulk + 1 ELSE n_bulk
        /\ UNCHANGED <<pure, fusion, report, config, quiet_round, loop_cnt, has_checked, prompt,
                       global_cov, discovered_api_pairs, energies, seed_queue,
                       n_succ_saved, fed_round, last_round, quiet_streak,
                       nonew_streak, left_by>>

\* the answers the run's bounds leave to the handler
Answers(short) ==
    {b \in short : seed_id - N_SAMPLE * n_bulk + Len(b) <= MaxSeedId}
        \cup (IF n_bulk < MaxBulk THEN {BulkBatch} ELSE {})

\* generate_until_n_success
GenerateDriver ==
    /\ pc = "gen"
    /\ config.generation_mode = "FuzzDriver"
    /\ \E batch \in Answers(BatchesDriver) : GenerateStep(batch)

\* generate_and_validate_api_sequences
GenerateApi ==
    /\ pc = "gen"
    /\ config.generation_mode = "ApiCombination"
    /\ \E batch \in Answers(BatchesApi) : GenerateStep(batch)

(***************************************************************************)
(* The rest of a FuzzDriver round, fuzzer.rs lines 322-360.                *)
(***************************************************************************)
RoundKind(stuck, any_new) ==
    IF stuck THEN "stuck" ELSE IF any_new THEN "new" ELSE "quiet"

FeedbackDriver ==
    /\ pc = "feedback"
    /\ config.generation_mode = "FuzzDriver"
    /\ LET stuck   == is_stuck(Len(succ_programs))
           r       == driver_programs(succ_programs, global_cov)
           queue1  == seed_queue \cup r.queue
           q1      == IF r.has_new THEN 0
                      ELSE IF ~stuck THEN quiet_round + 1
                      ELSE quiet_round
           recheck == should_recheck(q1, config) /\ ~has_checked
           kind    == RoundKind(stuck, r.any_new)
       IN  /\ n_succ_saved' = n_succ_saved + Len(succ_programs)
           /\ fed_round' = ProgramIds(succ_programs)
           /\ IF ~config.disable_power_schedule
              THEN \* mutate_prompt: update_energies, then update_prompt
                   /\ energies' = update_energies(compute_library_api_coverage(r.cov))
                   /\ \E coin \in should_deterministic_mutate(queue1) :
                        IF coin
                        THEN \E comb \in mutate_prompt_combination(prompt.comb) :
                               prompt' = [comb |-> comb, by |-> "mutate"]
                        ELSE \E comb \in assemble_high_energy_combiantion(energies') :
                               prompt' = [comb |-> comb, by |-> "energy"]
              ELSE /\ energies' = energies
                   /\ \E comb \in rand_choose_combination(DEFAULT_COMB_LEN) :
                        prompt' = [comb |-> comb, by |-> "random"]
           /\ IF recheck
              THEN \* recheck_seed, recompute_global_coverage, load_programs_from_seeds
                   /\ seed_queue' \in SUBSET queue1
                   /\ global_cov' \in SUBSET r.cov
                   /\ has_checked' = TRUE
                   /\ quiet_round' = 0
              ELSE /\ seed_queue' = queue1
                   /\ global_cov' = r.cov
                   /\ has_checked' = has_checked
                   /\ quiet_round' = q1
           /\ loop_cnt' = loop_cnt + 1
           /\ summary' = [loop |-> loop_cnt', quiet_round |-> quiet_round']
           /\ rc_succ' = 0
           /\ rc_total' = 0
           /\ pc' = "top"
           /\ last_round' = kind
           /\ quiet_streak' = IF recheck \/ kind # "quiet" THEN 0 ELSE quiet_streak + 1
           /\ nonew_streak' = IF recheck \/ kind = "new" THEN 0 ELSE nonew_streak + 1
    /\ UNCHANGED <<pure, fusion, minimize_calls, config, seed_id, succ_programs, discovered_api_pairs,
                   err_round, n_err_saved, assigned, n_accepted, last_accepted,
                   round_succ, round_total, left_by, gen_tick, n_bulk>>

(***************************************************************************)
(* The rest of an ApiCombination round, fuzzer.rs lines 377-433.           *)
(***************************************************************************)
\* `if programs.is_empty() { update_prompt_for_api_mode; loop_cnt += 1; continue; }`
FeedbackApiEmpty ==
    /\ pc = "feedback"
    /\ config.generation_mode = "ApiCombination"
    /\ Len(succ_programs) = 0
    /\ \E comb \in assemble_high_energy_combiantion(energies) :
         prompt' = [comb |-> comb, by |-> "energy"]
    /\ loop_cnt' = loop_cnt + 1
    /\ pc' = "top"
    /\ last_round' = "stuck"
    /\ quiet_streak' = 0
    /\ nonew_streak' = nonew_streak + 1
    /\ UNCHANGED <<pure, fusion, report, config, quiet_round, seed_id, succ_programs, rc_succ,
                   rc_total, has_checked, global_cov, discovered_api_pairs,
                   energies, seed_queue, disk, assigned, n_accepted,
                   last_accepted, fed_round, round_succ, round_total, left_by,
                   gen_tick, n_bulk>>

FeedbackApi ==
    /\ pc = "feedback"
    /\ config.generation_mode = "ApiCombination"
    /\ Len(succ_programs) # 0
    /\ LET program_len == Len(succ_programs)
           stuck       == is_stuck(program_len)
           r           == api_programs(succ_programs, discovered_api_pairs)
           has_new_in_round == r.round_new # {}
           kind        == RoundKind(stuck, has_new_in_round)
           leave       == Cardinality(r.round_new) < 1 /\ program_len # 0
       IN  /\ n_succ_saved' = n_succ_saved + Len(succ_programs)
           /\ fed_round' = ProgramIds(succ_programs)
           /\ discovered_api_pairs' = r.discovered
           /\ quiet_round' = IF has_new_in_round THEN 0
                             ELSE IF ~stuck THEN quiet_round + 1
                             ELSE quiet_round
           /\ energies' = IF has_new_in_round
                          THEN update_energies_from_api_pairs(energies, r.round_new)
                          ELSE energies
           /\ \E comb \in assemble_high_energy_combiantion(energies') :
                prompt' = [comb |-> comb, by |-> "energy"]
           /\ loop_cnt' = loop_cnt + 1
           /\ summary' = [loop |-> loop_cnt', quiet_round |-> quiet_round']
           /\ rc_succ' = 0
           /\ rc_total' = 0
           /\ pc' = IF leave THEN "minimize" ELSE "top"
           /\ left_by' = IF leave THEN "break" ELSE left_by
           /\ last_round' = kind
           /\ quiet_streak' = IF kind # "quiet" THEN 0 ELSE quiet_streak + 1
           /\ nonew_streak' = IF kind = "new" THEN 0 ELSE nonew_streak + 1
    /\ UNCHANGED <<pure, fusion, minimize_calls, config, seed_id, succ_programs, has_checked, global_cov,
                   seed_queue, err_round, n_err_saved, assigned, n_accepted,
                   last_accepted, round_succ, round_total, gen_tick, n_bulk>>

(***************************************************************************)
(* After the round loop: minimize / minimize_by_api_pairs, then Ok.        *)
(***************************************************************************)
Minimize ==
    /\ pc = "minimize"
    /\ minimize_calls' = Append(minimize_calls, minimize_strategy(config.generation_mode))
    /\ pc' = "done"
    /\ UNCHANGED <<pure, fusion, summary, config, quiet_round, seed_id, succ_programs, rc_succ,
                   rc_total, loop_cnt, has_checked, prompt, global_cov,
                   discovered_api_pairs, energies, seed_queue, disk, history>>

\* an external call returns Err and `?` makes fuzz_loop return it; after the
\* round loop that call is the minimization
ExternalError ==
    /\ pc \in {"gen", "feedback", "minimize"}
    /\ minimize_calls' =
         IF pc = "minimize"
         THEN Append(minimize_calls, minimize_strategy(config.generation_mode))
         ELSE minimize_calls
    /\ pc' = "error"
    /\ UNCHANGED <<pure, fusion, summary, config, quiet_round, seed_id, succ_programs, rc_succ,
                   rc_total, loop_cnt, has_checked, prompt, global_cov,
                   discovered_api_pairs, energies, seed_queue, disk, history>>

Next ==
    \/ Start
    \/ Converge
    \/ BeginRound
    \/ GenerateDriver
    \/ GenerateApi
    \/ FeedbackDriver
    \/ FeedbackApiEmpty
    \/ FeedbackApi
    \/ Minimize
    \/ ExternalError

Spec == Init /\ [][Next]_vars

\* the loop keeps running while it can
FairSpec == Spec /\ WF_vars(Next)

(***************************************************************************)
(* should_shuffle applied on its own to every pair of small arguments.     *)
(***************************************************************************)
ShuffleConfig ==
    [generation_mode        |-> "FuzzDriver",
     fuzz_round_succ        |-> 1,
     fuzz_converge_round    |-> 1,
     recheck                |-> FALSE,
     disable_power_schedule |-> FALSE]

InitShuffle ==
    /\ config = ShuffleConfig
    /\ Fresh
    /\ call \in {[op |-> "should_shuffle", args |-> <<succ, total>>] :
                    succ \in 0..MaxShuffleArg, total \in 0..MaxShuffleArg}
    /\ ret = <<>>
    /\ prev_run = NoRun
    /\ NoLocals
    /\ NoFusion

ApplyShouldShuffle ==
    /\ call.op = "should_shuffle"
    /\ ret = <<>>
    /\ ret' = <<should_shuffle(call.args[1], call.args[2])>>
    /\ UNCHANGED <<call, prev_run, locals, fusion, report, config, pc, quiet_round, seed_id, succ_programs,
                   rc_succ, rc_total, loop_cnt, has_checked, prompt,
                   global_cov, discovered_api_pairs, energies, seed_queue,
                   disk, history>>

NextShuffle == ApplyShouldShuffle

SpecShuffle == InitShuffle /\ [][NextShuffle]_vars

(***************************************************************************)
(* fuzz_loop started again after an earlier run was interrupted.           *)
(***************************************************************************)
InitResume ==
    /\ config \in Configs
    /\ Fresh
    /\ call = NoCall
    /\ ret = <<>>
    /\ prev_run \in PrevRuns
    /\ NoLocals
    /\ NoFusion

SpecResume == InitResume /\ [][Next]_vars

(***************************************************************************)
(* FusionBatcher (program/cntg.rs).  A string is a sequence of             *)
(* one-character strings; a file is a record of its name and its text.     *)
(***************************************************************************)
DigitChars == <<"0", "1", "2", "3", "4", "5", "6", "7", "8", "9">>

\* the decimal rendering of a usize, as `{}` formats it
RECURSIVE to_string(_)
to_string(n) ==
    IF n < 10 THEN <<DigitChars[n + 1]>>
    ELSE to_string(n \div 10) \o <<DigitChars[(n % 10) + 1]>>

\* the number a decimal rendering stands for
RECURSIVE parse_usize(_)
parse_usize(s) ==
    IF s = <<>> THEN 0
    ELSE LET d == CHOOSE k \in 0..9 : DigitChars[k + 1] = s[Len(s)]
         IN  10 * parse_usize(SubSeq(s, 1, Len(s) - 1)) + d

\* `{:0>width$}`: zeros on the left up to width, nothing cut off
pad_left(s, width) ==
    IF Len(s) >= width THEN s ELSE [k \in 1..(width - Len(s)) |-> "0"] \o s

\* format!("id_{number:>0width$}.cc", number = id, width = 6)
scratch_name(id) ==
    <<"i", "d", "_">> \o pad_left(to_string(id), NAME_WIDTH) \o <<".", "c", "c">>

\* format!("Core_{core_id:0>width$}", width = 3)
get_core_dir(core_id) ==
    <<"C", "o", "r", "e", "_">> \o pad_left(to_string(core_id), CORE_WIDTH)

\* the byte of a character that occurs in a file name
Code(ch) ==
    CASE ch = "." -> 46
      [] ch \in Range(DigitChars) -> 48 + (CHOOSE k \in 0..9 : DigitChars[k + 1] = ch)
      [] ch = "_" -> 95
      [] ch = "c" -> 99
      [] ch = "d" -> 100
      [] ch = "i" -> 105

\* the order of two paths in a sorted directory listing: byte by byte
path_less(a, b) ==
    \E k \in 0..Len(a) :
        /\ k <= Len(b)
        /\ \A j \in 1..k : a[j] = b[j]
        /\ IF k = Len(a) THEN k < Len(b)
           ELSE k < Len(b) /\ Code(a[k + 1]) < Code(b[k + 1])

\* the files of a directory, sorted by name
RECURSIVE read_sort_dir(_)
read_sort_dir(dir) ==
    IF dir = {} THEN <<>>
    ELSE LET first == CHOOSE f \in dir :
                          \A g \in dir \ {f} : path_less(f.name, g.name)
         IN  <<first>> \o read_sort_dir(dir \ {first})

\* x.extension() == "cc"
has_cc_extension(name) ==
    /\ Len(name) > 3
    /\ SubSeq(name, Len(name) - 2, Len(name)) = <<".", "c", "c">>

starts_with(buf, pat) ==
    Len(pat) <= Len(buf) /\ SubSeq(buf, 1, Len(pat)) = pat

\* str::replace: every non-overlapping match of a non-empty pattern, found
\* from left to right, is replaced
RECURSIVE replace(_, _, _)
replace(buf, from, to) ==
    IF buf = <<>> THEN <<>>
    ELSE IF starts_with(buf, from)
         THEN to \o replace(SubSeq(buf, Len(from) + 1, Len(buf)), from, to)
         ELSE <<Head(buf)>> \o replace(Tail(buf), from, to)

\* deopt.project_name
project_name == <<"l">>

\* format!("test_{}_api_sequence", library_name)
function_name ==
    <<"t", "e", "s", "t", "_">> \o project_name \o
    <<"_", "a", "p", "i", "_", "s", "e", "q", "u", "e", "n", "c", "e">>

\* format!("{}_{}", function_name, driver_id)
suffixed_name(driver_id) == function_name \o <<"_">> \o to_string(driver_id)

\* change_driver_id, from the text read to the text written
change_driver_id_first_only(buf, driver_id) ==
    LET hit == {k \in 1..Len(buf) : starts_with(SubSeq(buf, k, Len(buf)), function_name)}
    IN  IF hit = {} THEN buf
        ELSE LET k == CHOOSE h \in hit : \A g \in hit : h <= g
             IN  SubSeq(buf, 1, k - 1) \o suffixed_name(driver_id) \o
                 SubSeq(buf, k + Len(function_name), Len(buf))

change_driver_id(buf, driver_id) ==
    replace(buf, function_name, suffixed_name(driver_id))

\* one line of a core.cc: its kind and the text that varies in it
Line(kind, text) == [kind |-> kind, text |-> text]

\* synthesis_batch: the content of core.cc for the batch of these ids
synthesis_batch_local_ordinals(batch_id) ==
    LET k == Len(batch_id)
    IN  <<Line("header", <<>>)>> \o
        [j \in 1..k |-> Line("decl", suffixed_name(j - 1))] \o
        <<Line("main", <<>>)>> \o
        [m \in 1..(2 * k) |->
            IF m % 2 = 1 THEN Line("progress", to_string((m + 1) \div 2 - 1))
            ELSE Line("call", suffixed_name(m \div 2 - 1))] \o
        <<Line("return", <<>>), Line("close", <<>>)>>

synthesis_batch_call_then_progress(batch_id) ==
    LET k == Len(batch_id)
    IN  <<Line("header", <<>>)>> \o
        [j \in 1..k |-> Line("decl", suffixed_name(batch_id[j]))] \o
        <<Line("main", <<>>)>> \o
        [m \in 1..(2 * k) |->
            IF m % 2 = 0 THEN Line("progress", to_string(m \div 2 - 1))
            ELSE Line("call", suffixed_name(batch_id[(m + 1) \div 2]))] \o
        <<Line("return", <<>>), Line("close", <<>>)>>

synthesis_batch(batch_id) ==
    LET k == Len(batch_id)
    IN  <<Line("header", <<>>)>> \o
        [j \in 1..k |-> Line("decl", suffixed_name(batch_id[j]))] \o
        <<Line("main", <<>>)>> \o
        [m \in 1..(2 * k) |->
            IF m % 2 = 1 THEN Line("progress", to_string((m + 1) \div 2 - 1))
            ELSE Line("call", suffixed_name(batch_id[m \div 2]))] \o
        <<Line("return", <<>>), Line("close", <<>>)>>

\* a file as a directory holds it; a member of a core also records the
\* driver_id it was written with, a core directory the names of the drivers
\* fuse_core was called with
File(name, text) == [name |-> name, text |-> text]

Member(name, text, driver_id) ==
    [name |-> name, text |-> text, driver_id |-> driver_id]

\* fuse_core stopped after core.cc and the first `written` members
fuse_core_upto(core_content, core_id, drivers, driver_id, written) ==
    [dir     |-> get_core_dir(core_id),
     batch   |-> [j \in 1..Len(drivers) |-> drivers[j].name],
     core_cc |-> core_content,
     members |-> {Member(drivers[j].name,
                         change_driver_id(drivers[j].text, driver_id[j]),
                         driver_id[j]) : j \in 1..written}]

\* fuse_core: the core directory it writes
fuse_core_one_id(core_content, core_id, drivers, driver_id) ==
    [dir     |-> get_core_dir(core_id),
     batch   |-> [j \in 1..Len(drivers) |-> drivers[j].name],
     core_cc |-> core_content,
     members |-> {Member(drivers[j].name,
                         change_driver_id(drivers[j].text, driver_id[1]),
                         driver_id[1]) : j \in 1..Len(drivers)}]

fuse_core(core_content, core_id, drivers, driver_id) ==
    fuse_core_upto(core_content, core_id, drivers, driver_id, Len(drivers))

\* `if batch.len() == self.batch || i == drivers.len() - 1`
closes_batch_only_when_full(len, i, n, batch) == len = batch

closes_batch(len, i, n, batch) == len = batch \/ i = n - 1

\* clone_programs: the scratch copies of the first `copied` programs
clone_programs_upto(programs, copied) ==
    [k \in 1..copied |-> File(scratch_name(k - 1), programs[k].text)]

clone_programs(programs) == clone_programs_upto(programs, Len(programs))

\* the text of the k-th accepted program: its entry function, a body of
\* its own, and a second mention of the function
BodyMarks == <<"a", "b", "c", "d", "e", "f", "g", "h", "i">>

driver_text(k) ==
    function_name \o <<"(", ")", "{", BodyMarks[k]>> \o function_name \o <<"}">>

\* the seed directory as fuse_seeds lists it
Seeds(n) == [k \in 1..n |-> File(<<"s", DigitChars[k + 1]>>, driver_text(k))]

\* CNTGProgram::new over empty scratch and output trees
InitFusion ==
    /\ config = ShuffleConfig
    /\ Fresh
    /\ call = NoCall
    /\ ret = <<>>
    /\ prev_run = NoRun
    /\ NoLocals
    /\ cpc = "new"
    /\ cntg \in {[programs |-> Seeds(n), batch |-> b, missing |-> {}] :
                    n \in 0..MaxPrograms, b \in 0..MaxFusionBatch}
    /\ driver_dir = {}
    /\ cntg_dir = {}
    /\ synth = NoSynthesis
    /\ workers = <<>>
    /\ compile = NoCompile
    /\ results = <<>>

\* the `?` after a stage of fuse_seeds: the caller returns at once
returns_early_never(result) == FALSE

returns_early(result) == result # "Ok"

\* init: remove_dir_all of a tree
init_keeps(dir) == dir

init(dir) == {}

\* std::fs::copy into a directory: a file of the same name is overwritten
write_files(dir, files) ==
    {f \in dir : \A g \in files : g.name # f.name} \cup files

\* transform: init wipes both trees, clone_programs fills the scratch one
Transform ==
    /\ cpc = "new"
    /\ cntg.missing = {}
    /\ driver_dir' = write_files(init(driver_dir), Range(clone_programs(cntg.programs)))
    /\ cntg_dir' = init(cntg_dir)
    /\ cntg' = [cntg EXCEPT !.programs = clone_programs(cntg.programs)]
    /\ cpc' = "transformed"
    /\ results' = Append(results, <<"transform", "Ok">>)
    /\ UNCHANGED <<fuzzer, synth, compiling>>

\* transform fails: in init (failed_at = 0, nothing removed yet) or at the
\* copy of program failed_at, which is at the latest the first one that
\* cannot be read
TransformError ==
    /\ cpc = "new"
    /\ \E failed_at \in 0..Len(cntg.programs) :
        /\ \A k \in cntg.missing : failed_at <= k
        /\ IF failed_at = 0
           THEN UNCHANGED <<driver_dir, cntg_dir>>
           ELSE /\ driver_dir' = write_files(init(driver_dir),
                                    Range(clone_programs_upto(cntg.programs, failed_at - 1)))
                /\ cntg_dir' = init(cntg_dir)
    /\ cpc' = "failed"
    /\ results' = Append(results, <<"transform", "Err">>)
    /\ UNCHANGED <<fuzzer, cntg, synth, compiling>>

\* synthesis up to its loop: the sorted .cc files of the scratch directory,
\* or an error of read_sort_dir
SynthesisStart ==
    /\ cpc \in {"transformed", "failed"}
    /\ Len(results) = 1
    /\ ~returns_early(results[1][2])
    /\ \/ /\ synth' = [NoSynthesis EXCEPT
                           !.drivers = SelectSeq(read_sort_dir(driver_dir),
                                                 LAMBDA f : has_cc_extension(f.name))]
          /\ cpc' = "synthesis"
          /\ UNCHANGED results
       \/ /\ cpc' = "failed"
          /\ results' = Append(results, <<"synthesis", "Err">>)
          /\ UNCHANGED synth
    /\ UNCHANGED <<fuzzer, cntg, driver_dir, cntg_dir, compiling>>

\* one iteration of `for (i, driver) in drivers.iter().enumerate()`
SynthesisStep ==
    /\ cpc = "synthesis"
    /\ synth.i < Len(synth.drivers)
    /\ LET i        == synth.i
           batch    == Append(synth.batch, synth.drivers[i + 1])
           batch_id == Append(synth.batch_id, i)
       IN  IF closes_batch(Len(batch), i, Len(synth.drivers), cntg.batch)
           THEN \/ /\ cntg_dir' = cntg_dir \cup
                          {fuse_core(synthesis_batch(batch_id), synth.core_id, batch, batch_id)}
                   /\ synth' = [synth EXCEPT !.i = i + 1, !.batch = <<>>,
                                             !.batch_id = <<>>, !.core_id = @ + 1]
                   /\ cpc' = "synthesis"
                   /\ UNCHANGED results
                \* fuse_core fails before the directory exists
                \/ /\ synth' = [synth EXCEPT !.batch = batch, !.batch_id = batch_id]
                   /\ cpc' = "failed"
                   /\ results' = Append(results, <<"synthesis", "Err">>)
                   /\ UNCHANGED cntg_dir
                \* fuse_core fails at the member after the first `written`
                \/ \E written \in 0..(Len(batch) - 1) :
                    /\ cntg_dir' = cntg_dir \cup
                           {fuse_core_upto(synthesis_batch(batch_id), synth.core_id,
                                           batch, batch_id, written)}
                    /\ synth' = [synth EXCEPT !.batch = batch, !.batch_id = batch_id]
                    /\ cpc' = "failed"
                    /\ results' = Append(results, <<"synthesis", "Err">>)
           ELSE /\ synth' = [synth EXCEPT !.i = i + 1, !.batch = batch,
                                          !.batch_id = batch_id]
                /\ UNCHANGED <<cntg_dir, cpc, results>>
    /\ UNCHANGED <<fuzzer, cntg, driver_dir, compiling>>

\* the loop is over: synthesis returns Ok
SynthesisReturn ==
    /\ cpc = "synthesis"
    /\ synth.i = Len(synth.drivers)
    /\ cpc' = "fused"
    /\ results' = Append(results, <<"synthesis", "Ok">>)
    /\ UNCHANGED <<fuzzer, cntg, driver_dir, cntg_dir, synth, compiling>>

\* what a core directory holds, read back
CoreLines(core, kind) == SelectSeq(core.core_cc, LAMBDA l : l.kind = kind)

\* the number after the last "_" of a renamed entry function
SuffixOf(name) == parse_usize(SubSeq(name, Len(function_name) + 2, Len(name)))

DeclaredSuffixes(core) ==
    [j \in 1..Len(CoreLines(core, "decl")) |-> SuffixOf(CoreLines(core, "decl")[j].text)]

CalledSuffixes(core) ==
    [j \in 1..Len(CoreLines(core, "call")) |-> SuffixOf(CoreLines(core, "call")[j].text)]

\* the input position a scratch name stands for
InputPosition(name) == parse_usize(SubSeq(name, 4, Len(name) - 3))

\* the input positions of the drivers of a core's batch, and of the
\* members written into its directory
BatchOf(core) == {InputPosition(n) : n \in Range(core.batch)}

MemberPositions(core) == {InputPosition(m.name) : m \in core.members}

\* the number in the name of a core directory
CoreId(core) == parse_usize(SubSeq(core.dir, 6, Len(core.dir)))

(***************************************************************************)
(* compile: one scoped worker thread per core directory.  A worker is      *)
(*   "unspawned"  not spawned yet                                          *)
(*   "running"    spawned, before compile_lib_fuzzers                      *)
(*   "compiled"   the core binary is written, before copy_library_init_file*)
(*   "done"       returned                                                 *)
(*   "panicked"   one of its unwrap()s hit an Err                          *)
(* and compile itself is at                                                *)
(*   "spawn"      the for loop over read_dir                               *)
(*   "join"       the for loop over the handles                            *)
(*   "exit"       the closure has returned, thread::scope is waiting       *)
(*   "returned"   compile returned result                                  *)
(*   "panicked"   compile panicked                                         *)
(***************************************************************************)
NotSpawned == [st |-> "unspawned", core |-> FALSE, init_file |-> FALSE]

Terminated(w) == w.st \in {"done", "panicked"}

CoreDirs == {core.dir : core \in cntg_dir}

\* thread::scope returns once every thread spawned in it has terminated
scope_exit_ready_joined_only(ws, handles, joined) ==
    \A j \in 1..joined : Terminated(ws[handles[j]])

scope_exit_ready(ws, handles, joined) ==
    \A j \in 1..Len(handles) : Terminated(ws[handles[j]])

\* compile up to its first spawn: Executor::new may return an error, the
\* unwrap()s on the output directory may panic
CompileStart ==
    /\ cpc \in {"fused", "failed"}
    /\ Len(results) = 2
    /\ ~returns_early(results[2][2])
    /\ compile.pc = "idle"
    /\ \/ /\ compile' = [compile EXCEPT !.pc = "returned", !.result = "Err"]
          /\ results' = Append(results, <<"compile", "Err">>)
          /\ UNCHANGED workers
       \/ /\ compile' = [compile EXCEPT !.pc = "panicked"]
          /\ results' = Append(results, <<"compile", "panic">>)
          /\ UNCHANGED workers
       \/ /\ compile' = [compile EXCEPT !.pc = IF CoreDirs = {} THEN "join" ELSE "spawn"]
          /\ workers' = [d \in CoreDirs |-> NotSpawned]
          /\ UNCHANGED results
    /\ UNCHANGED <<fuzzer, cpc, cntg, driver_dir, cntg_dir, synth>>

\* one iteration of `for dir in std::fs::read_dir(..)`: the next entry, in
\* the order the directory gives them, gets its thread
CompileSpawn ==
    /\ compile.pc = "spawn"
    /\ \E d \in DOMAIN workers :
        /\ workers[d].st = "unspawned"
        /\ workers' = [workers EXCEPT ![d].st = "running"]
        /\ compile' = [compile EXCEPT
                          !.handles = Append(@, d),
                          !.pc = IF Len(compile.handles) + 1 = Cardinality(DOMAIN workers)
                                 THEN "join" ELSE "spawn"]
    /\ UNCHANGED <<fuzzer, cpc, cntg, driver_dir, cntg_dir, synth, results>>

\* a worker: executor.compile_lib_fuzzers(..).unwrap()
WorkerCompile ==
    /\ \E d \in DOMAIN workers :
        /\ workers[d].st = "running"
        /\ \/ workers' = [workers EXCEPT ![d].st = "compiled", ![d].core = TRUE]
           \/ workers' = [workers EXCEPT ![d].st = "panicked"]
    /\ UNCHANGED <<fuzzer, cpc, cntg, driver_dir, cntg_dir, synth, compile, results>>

\* a worker: self.deopt.copy_library_init_file(&core_dir).unwrap()
WorkerCopyInit ==
    /\ \E d \in DOMAIN workers :
        /\ workers[d].st = "compiled"
        /\ \/ workers' = [workers EXCEPT ![d].st = "done", ![d].init_file = TRUE]
           \/ workers' = [workers EXCEPT ![d].st = "panicked"]
    /\ UNCHANGED <<fuzzer, cpc, cntg, driver_dir, cntg_dir, synth, compile, results>>

\* one iteration of `for handle in handles`: join blocks until the thread
\* has terminated; the first panicked one ends the closure with Err, the
\* end of the loop with Ok
CompileJoin ==
    /\ compile.pc = "join"
    /\ IF compile.joined = Len(compile.handles)
       THEN compile' = [compile EXCEPT !.pc = "exit", !.result = "Ok"]
       ELSE LET w == workers[compile.handles[compile.joined + 1]]
            IN  /\ Terminated(w)
                /\ compile' = [compile EXCEPT
                                  !.joined = @ + 1,
                                  !.pc = IF w.st = "panicked" THEN "exit" ELSE "join",
                                  !.result = IF w.st = "panicked" THEN "Err" ELSE @]
    /\ UNCHANGED <<fuzzer, cpc, cntg, driver_dir, cntg_dir, synth, workers, results>>

\* the end of thread::scope: it waits for the threads and panics if one
\* that was not joined has panicked
CompileExit ==
    /\ compile.pc = "exit"
    /\ scope_exit_ready(workers, compile.handles, compile.joined)
    /\ LET unhandled == \E j \in (compile.joined + 1)..Len(compile.handles) :
                            workers[compile.handles[j]].st = "panicked"
       IN  /\ compile' = [compile EXCEPT !.pc = IF unhandled THEN "panicked" ELSE "returned"]
           /\ results' = Append(results,
                                <<"compile", IF unhandled THEN "panic" ELSE compile.result>>)
    /\ UNCHANGED <<fuzzer, cpc, cntg, driver_dir, cntg_dir, synth, workers>>

NextCompile ==
    \/ CompileStart
    \/ CompileSpawn
    \/ WorkerCompile
    \/ WorkerCopyInit
    \/ CompileJoin
    \/ CompileExit

\* the output of a fusion of n programs with batch size 1, as synthesis
\* leaves it
SingleCore(k) ==
    fuse_core(synthesis_batch(<<k>>), k,
              <<File(scratch_name(k), driver_text(k + 1))>>, <<k>>)

InitCompile ==
    /\ config = ShuffleConfig
    /\ Fresh
    /\ call = NoCall
    /\ ret = <<>>
    /\ prev_run = NoRun
    /\ NoLocals
    /\ cpc = "fused"
    /\ \E n \in 0..MaxCores :
        /\ cntg = [programs |-> clone_programs(Seeds(n)), batch |-> 1, missing |-> {}]
        /\ driver_dir = Range(clone_programs(Seeds(n)))
        /\ cntg_dir = {SingleCore(k) : k \in 0..(n - 1)}
        /\ synth = [NoSynthesis EXCEPT !.drivers = clone_programs(Seeds(n)),
                                       !.i = n, !.core_id = n]
    /\ workers = <<>>
    /\ compile = NoCompile
    /\ results = <<<<"transform", "Ok">>, <<"synthesis", "Ok">>>>

SpecCompile == InitCompile /\ [][NextCompile]_vars

\* fuse_seeds: transform, synthesis, compile with all programs in one batch
InitHarness ==
    /\ config = ShuffleConfig
    /\ Fresh
    /\ call = NoCall
    /\ ret = <<>>
    /\ prev_run = NoRun
    /\ NoLocals
    /\ cpc = "new"
    /\ \E n \in 0..MaxPrograms, m \in SUBSET (1..MaxPrograms) :
        /\ m \subseteq 1..n
        /\ cntg = [programs |-> Seeds(n), batch |-> n, missing |-> m]
    /\ driver_dir = {}
    /\ cntg_dir = {}
    /\ synth = NoSynthesis
    /\ workers = <<>>
    /\ compile = NoCompile
    /\ results = <<>>

NextFusion ==
    \/ Transform
    \/ TransformError
    \/ SynthesisStart
    \/ SynthesisStep
    \/ SynthesisReturn

SpecFusion == InitFusion /\ [][NextFusion]_vars

NextHarness == NextFusion \/ NextCompile

SpecHarness == InitHarness /\ [][NextHarness]_vars

(***************************************************************************)
(* A fusion run over the trees an earlier run has left.                    *)
(***************************************************************************)
\* the ids of batch c of n drivers with batch size b
BatchIds(c, n, b) ==
    IF b = 0 \/ b >= n THEN [j \in 1..n |-> j - 1]
    ELSE [j \in 1..((IF (c + 1) * b < n THEN (c + 1) * b ELSE n) - c * b) |-> c * b + j - 1]

\* what a fusion of these input files with batch size b writes to the
\* fused-output tree when nothing fails
DerivedTree(programs, b) ==
    LET n       == Len(programs)
        drivers == clone_programs(programs)
        cores   == IF n = 0 THEN {}
                   ELSE IF b = 0 \/ b >= n THEN {0}
                   ELSE 0..((n + b - 1) \div b - 1)
    IN  {fuse_core(synthesis_batch(BatchIds(c, n, b)), c,
                   [j \in 1..Len(BatchIds(c, n, b)) |-> drivers[BatchIds(c, n, b)[j] + 1]],
                   BatchIds(c, n, b)) : c \in cores}

\* the programs of an earlier run over another seed directory
EarlierSeeds(n) ==
    [k \in 1..n |-> File(<<"s", DigitChars[k + 1]>>,
                         function_name \o <<"(", ")", "{", "z", "}">>)]

\* the earlier run: over other programs, one per batch, or over the same
\* input
EarlierRuns ==
    {[op |-> "fuse_seeds", args |-> <<"other", e>>] : e \in 1..MaxEarlier}
        \cup {[op |-> "fuse_seeds", args |-> <<"same", 0>>]}

InitRefusion ==
    /\ config = ShuffleConfig
    /\ Fresh
    /\ call \in EarlierRuns
    /\ ret = <<>>
    /\ prev_run = NoRun
    /\ NoLocals
    /\ cpc = "new"
    /\ cntg \in {[programs |-> Seeds(n), batch |-> b, missing |-> {}] :
                    n \in 0..MaxPrograms, b \in 0..MaxFusionBatch}
    /\ driver_dir = IF call.args[1] = "same"
                    THEN Range(clone_programs(cntg.programs))
                    ELSE Range(clone_programs(EarlierSeeds(call.args[2])))
    /\ cntg_dir = IF call.args[1] = "same"
                  THEN DerivedTree(cntg.programs, cntg.batch)
                  ELSE DerivedTree(EarlierSeeds(call.args[2]), 1)
    /\ synth = NoSynthesis
    /\ workers = <<>>
    /\ compile = NoCompile
    /\ results = <<>>

SpecRefusion == InitRefusion /\ [][NextFusion]_vars

(***************************************************************************)
(* The operations of the scheduler applied on their own.                   *)
(***************************************************************************)
\* the records a scheduler may hold before a call
ScheduleStates ==
    {NoSeeds,
     initialize_energies_for_api_mode,
     update_energies_from_api_pairs(initialize_energies_for_api_mode, {<<"a1", "a2">>}),
     update_energies([a \in APIs |-> <<1, 2>>])}

\* coverage maps: complete ones, and ones lacking catalog APIs
CoverageMaps ==
    {[a \in D |-> IF a = "a1" THEN c1 ELSE IF a = "a2" THEN c2 ELSE <<0, 1>>] :
        D \in {APIs, APIs \ {"a3"}, APIs \ {"a1", "a5"}},
        c1 \in {<<0, 2>>, <<1, 2>>, <<2, 2>>},
        c2 \in {<<0, 2>>, <<1, 2>>}}

\* exec and prompt counters: a count for no API, for one or for two
Counters ==
    {[a \in D |-> n] : D \in {{}, {"a1"}, {"a1", "a2"}}, n \in 0..MaxCount}

\* sets of newly discovered pairs, with a pair of an API with itself and a
\* pair with a function that is no catalog API
PairPool ==
    {<<"a1", "a2">>, <<"a2", "a1">>, <<"a2", "a2">>, <<"a2", "printf">>, <<"a3", "a4">>}

LookupNames == {"a1", "a2", "printf"}

ScheduleCalls ==
    {[op |-> "update_energies", args |-> <<seeds, cov, ec, pc0>>] :
        seeds \in ScheduleStates, cov \in CoverageMaps, ec \in Counters, pc0 \in Counters}
    \cup {[op |-> "update_energies_from_api_pairs", args |-> <<seeds, pairs>>] :
        seeds \in ScheduleStates, pairs \in SUBSET PairPool}
    \cup {[op |-> "choose_low_energy_api", args |-> <<seeds, comb>>] :
        seeds \in ScheduleStates,
        comb \in {<<x>> : x \in LookupNames} \cup (LookupNames \X LookupNames)}
    \cup {[op |-> "get_seed_by_name", args |-> <<seeds, name>>] :
        seeds \in ScheduleStates, name \in LookupNames}

InitSchedule ==
    /\ config = ShuffleConfig
    /\ Fresh
    /\ call \in ScheduleCalls
    /\ ret = <<>>
    /\ prev_run = NoRun
    /\ NoLocals
    /\ NoFusion

ScheduleFrame ==
    UNCHANGED <<call, prev_run, locals, fusion, report, config, pc, quiet_round, seed_id, succ_programs,
                rc_succ, rc_total, loop_cnt, has_checked, prompt,
                global_cov, discovered_api_pairs, energies, seed_queue,
                disk, history>>

ApplyUpdateEnergies ==
    /\ call.op = "update_energies"
    /\ ret = <<>>
    /\ ret' = <<Schedule_update_energies(call.args[1], call.args[2], call.args[3], call.args[4])>>
    /\ ScheduleFrame

ApplyUpdateEnergiesFromApiPairs ==
    /\ call.op = "update_energies_from_api_pairs"
    /\ ret = <<>>
    /\ ret' = <<Outcome(FALSE, update_energies_from_api_pairs(call.args[1], call.args[2]), <<>>)>>
    /\ ScheduleFrame

ApplyChooseLowEnergyApi ==
    /\ call.op = "choose_low_energy_api"
    /\ ret = <<>>
    /\ \E o \in choose_low_energy_api(call.args[1], call.args[2]) : ret' = <<o>>
    /\ ScheduleFrame

ApplyGetSeedByName ==
    /\ call.op = "get_seed_by_name"
    /\ ret = <<>>
    /\ ret' = <<Outcome(FALSE, call.args[1], get_seed_by_name(call.args[1], call.args[2]))>>
    /\ ScheduleFrame

NextSchedule ==
    \/ ApplyUpdateEnergies
    \/ ApplyUpdateEnergiesFromApiPairs
    \/ ApplyChooseLowEnergyApi
    \/ ApplyGetSeedByName

SpecSchedule == InitSchedule /\ [][NextSchedule]_vars

(***************************************************************************)
(* Seed::compute_energy with the widths of the source: exec_count,         *)
(* prompt_count and exponent are u32, the energy is f32.  A u32 is the     *)
(* sequence of its base-256 digits, lowest first, without high zeros.      *)
(***************************************************************************)
\* bytes of a u32
U32_BYTES == 4
\* bits of the significand of an f32
F32_DIGITS == 24
Byte == 256

RECURSIVE Digits(_)
Digits(n) == IF n = 0 THEN <<>> ELSE <<n % Byte>> \o Digits(n \div Byte)

Digit(a, k) == IF k \in 1..Len(a) THEN a[k] ELSE 0

RECURSIVE Carried(_, _, _)
Carried(cols, k, carry) ==
    IF k > Len(cols)
    THEN IF carry = 0 THEN <<>>
         ELSE <<carry % Byte>> \o Carried(cols, k + 1, carry \div Byte)
    ELSE <<(cols[k] + carry) % Byte>> \o Carried(cols, k + 1, (cols[k] + carry) \div Byte)

RECURSIVE Trim(_)
Trim(a) ==
    IF a = <<>> THEN <<>>
    ELSE IF a[Len(a)] = 0 THEN Trim(SubSeq(a, 1, Len(a) - 1))
    ELSE a

\* the sum and the product of two numbers, in full
Add(a, b) ==
    Trim(Carried([k \in 1..(IF Len(a) > Len(b) THEN Len(a) ELSE Len(b)) |->
                     Digit(a, k) + Digit(b, k)], 1, 0))

RECURSIVE Column(_, _, _, _)
Column(a, b, k, i) ==
    IF i > Len(a) THEN 0
    ELSE a[i] * Digit(b, k + 1 - i) + Column(a, b, k, i + 1)

Mul(a, b) ==
    Trim(Carried([k \in 1..(Len(a) + Len(b) - 1) |-> Column(a, b, k, 1)], 1, 0))

\* what u32 arithmetic keeps of a full result, and whether it overflowed
u32(full) ==
    [value    |-> Trim(SubSeq(full, 1, IF Len(full) > U32_BYTES THEN U32_BYTES ELSE Len(full))),
     overflow |-> Len(full) > U32_BYTES]

u32_add(a, b) == u32(Add(a, b))

u32_mul(a, b) == u32(Mul(a, b))

\* u32::pow: overflows when the power does
RECURSIVE u32_pow(_, _)
u32_pow(base, exp) ==
    IF exp = 0 THEN [value |-> <<1>>, overflow |-> FALSE]
    ELSE LET r == u32_pow(base, exp - 1)
             m == u32_mul(r.value, base)
         IN  [value |-> m.value, overflow |-> r.overflow \/ m.overflow]

RECURSIVE BitLen(_)
BitLen(n) == IF n = 0 THEN 0 ELSE 1 + BitLen(n \div 2)

\* `as f32` of a u32: the nearest f32, ties to even, as <<m, s>> for m * 2^s
as_f32(a) ==
    IF Len(a) < U32_BYTES
    THEN <<Digit(a, 1) + Byte * Digit(a, 2) + Byte * Byte * Digit(a, 3), 0>>
    ELSE LET sh   == BitLen(a[4])
             high == a[4] * Byte * Byte + a[3] * Byte + a[2]
             q    == high * Pow(2, 8 - sh) + a[1] \div Pow(2, sh)
             r    == a[1] % Pow(2, sh)
             half == Pow(2, sh - 1)
             m    == IF r > half \/ (r = half /\ q % 2 = 1) THEN q + 1 ELSE q
         IN  IF m = Pow(2, F32_DIGITS) THEN <<Pow(2, F32_DIGITS - 1), sh + 1>>
             ELSE <<m, sh>>

\* m1 * 2^s1 < m2 * 2^s2 for two values as_f32 gives
f32_less(x, y) == x[2] < y[2] \/ (x[2] = y[2] /\ x[1] < y[1])

\* an energy: top / bottom when finite, with top the rational 1 - coverage
\* and bottom the f32 of the denominator
Energy(kind, top, bottom) == [kind |-> kind, top |-> top, bottom |-> bottom]

\* Seed::compute_energy: the outcomes the builds can produce.  An overflow
\* of `1 + exec_count`, `1 + prompt_count`, `count * round` or `pow` panics
\* where overflow checks are compiled in and wraps where they are not; a
\* wrapped denominator of 0 divides to infinity, or to NaN when top is 0.
Seed_compute_energy(coverage, exec_count, prompt_count, exponent) ==
    LET top    == <<coverage[2] - coverage[1], coverage[2]>>
        count  == u32_add(<<1>>, exec_count)
        round  == u32_add(<<1>>, prompt_count)
        prod   == u32_mul(count.value, round.value)
        bottom == u32_pow(prod.value, exponent)
        wraps  == count.overflow \/ round.overflow \/ prod.overflow \/ bottom.overflow
        energy == IF bottom.value = <<>>
                  THEN Energy(IF top[1] > 0 THEN "inf" ELSE "nan", top, <<0, 0>>)
                  ELSE Energy("finite", top, as_f32(bottom.value))
    IN  IF wraps THEN {Energy("panic", top, <<0, 0>>), energy} ELSE {energy}

\* counts: small ones, ones around the f32 significand and the u32 limits
Counts ==
    {Digits(n) : n \in {0, 1, 2, 255, 65535, 65536, 16777215, 16777216}}
        \cup {<<254, 255, 255, 255>>, <<255, 255, 255, 255>>}

Coverages == {<<0, 2>>, <<1, 2>>, <<2, 2>>}

InitEnergy ==
    /\ config = ShuffleConfig
    /\ Fresh
    /\ call \in {[op |-> "compute_energy", args |-> <<c, ec, pc0, x>>] :
                    c \in Coverages, ec \in Counts, pc0 \in Counts, x \in 0..MaxExponent}
    /\ ret = <<>>
    /\ prev_run = NoRun
    /\ NoLocals
    /\ NoFusion

ApplyComputeEnergy ==
    /\ call.op = "compute_energy"
    /\ ret = <<>>
    /\ \E e \in Seed_compute_energy(call.args[1], call.args[2], call.args[3], call.args[4]) :
         ret' = <<e>>
    /\ ScheduleFrame

NextEnergy == ApplyComputeEnergy

SpecEnergy == InitEnergy /\ [][NextEnergy]_vars

(***************************************************************************)
(* assemble_high_energy_combiantion and rand_choose_combination followed   *)
(* draw by draw.                                                           *)
(***************************************************************************)
rejects_never(comb, api) == FALSE

\* `comb.contains(&api)`, `combination.iter().any(|x| x.get_func_name() == ...)`
rejects(comb, api) == api \in Range(comb)

\* energies of full-coverage APIs (0) and of others (1)
EnergyAssignments == [APIs -> {<<0, 1>>, <<1, 1>>}]

InitAssemble ==
    /\ config = ShuffleConfig
    /\ Fresh
    /\ call \in {[op |-> "assemble_high_energy_combiantion", args |-> <<seeds, len>>] :
                    seeds \in EnergyAssignments, len \in 0..MaxCombLen}
                \cup {[op |-> "rand_choose_combination", args |-> <<NoSeeds, len>>] :
                    len \in 0..MaxCombLen}
    /\ ret = <<>>
    /\ prev_run = NoRun
    /\ assemble = NoAssemble
    /\ feedback = NoFeedback
    /\ harness = NoHarness
    /\ NoFusion

AssembleFrame ==
    UNCHANGED <<call, prev_run, feedback, harness, fusion, report, config, pc, quiet_round,
                seed_id, succ_programs, rc_succ, rc_total, loop_cnt, has_checked, prompt,
                global_cov, discovered_api_pairs, energies, seed_queue, disk, history>>

\* `let len = rand_comb_len(); let mut comb = Vec::new();`
AssembleStart ==
    /\ call.op \in {"assemble_high_energy_combiantion", "rand_choose_combination"}
    /\ assemble.pc = "idle"
    /\ ret = <<>>
    /\ assemble' = [pc |-> "loop", len |-> call.args[2], comb |-> <<>>, draws |-> 0]
    /\ UNCHANGED ret
    /\ AssembleFrame

\* one turn of `while comb.len() < len` in which api is drawn:
\* choose_api_by_energy in assemble_high_energy_combiantion, a uniform index
\* in rand_choose_combination
Draw(api) ==
    /\ assemble.pc = "loop"
    /\ Len(assemble.comb) < assemble.len
    /\ api \in (IF call.op = "rand_choose_combination" THEN APIs ELSE Drawable(call.args[1]))
    /\ assemble' = [assemble EXCEPT
                      !.comb  = IF rejects(@, api) THEN @ ELSE Append(@, api),
                      !.draws = 1 - @]
    /\ UNCHANGED ret
    /\ AssembleFrame

AssembleDraw == \E api \in APIs : Draw(api)

\* the loop is left and the combination returned
AssembleReturn ==
    /\ assemble.pc = "loop"
    /\ ~(Len(assemble.comb) < assemble.len)
    /\ assemble' = [assemble EXCEPT !.pc = "returned"]
    /\ ret' = <<assemble.comb>>
    /\ AssembleFrame

NextAssemble ==
    \/ AssembleStart
    \/ AssembleDraw
    \/ AssembleReturn

SpecAssemble == InitAssemble /\ [][NextAssemble]_vars

\* the function keeps running, and the draw is fair: an API that can be drawn
\* is drawn sooner or later
FairSpecAssemble ==
    /\ SpecAssemble
    /\ WF_vars(AssembleStart)
    /\ WF_vars(AssembleReturn)
    /\ \A api \in APIs : WF_vars(Draw(api))

(***************************************************************************)
(* main of the harness (bin/harness.rs): the subcommand, its stages and    *)
(* the exit code.                                                          *)
(***************************************************************************)
Commands == {"fuse-seeds", "collect-coverage", "report-coverage", "all"}

\* the operations a subcommand runs, in the order of the code
command_stages(command) ==
    CASE command = "fuse-seeds"       -> <<"fuse_seeds">>
      [] command = "collect-coverage" -> <<"collect_coverage">>
      [] command = "report-coverage"  -> <<"report_coverage">>
      [] command = "all"              -> <<"create_seeds", "fuse_seeds", "report_coverage">>

exit_code_always_success(result) == "SUCCESS"

\* `if let Err(err) = .. { return ExitCode::FAILURE; }`, else ExitCode::SUCCESS
exit_code(result) == IF result = "Err" THEN "FAILURE" ELSE "SUCCESS"

InitMain ==
    /\ config = ShuffleConfig
    /\ Fresh
    /\ call \in {[op |-> "main", args |-> <<command>>] : command \in Commands}
    /\ ret = <<>>
    /\ prev_run = NoRun
    /\ NoLocals
    /\ NoFusion

MainFrame ==
    UNCHANGED <<call, ret, prev_run, assemble, feedback, report, config, pc, quiet_round,
                seed_id, succ_programs, rc_succ, rc_total, loop_cnt, has_checked, prompt,
                global_cov, discovered_api_pairs, energies, seed_queue, disk, history>>

\* `match &config.command`
MainStart ==
    /\ call.op = "main"
    /\ harness.pc = "idle"
    /\ harness' = [pc |-> "stage", todo |-> command_stages(call.args[1]), done |-> <<>>,
                   result |-> "none", exit |-> "none"]
    /\ UNCHANGED fusion
    /\ MainFrame

\* what main keeps of a stage that gave outcome: `?` returns the error, the
\* last stage gives the result of the operation
after_stage(h, outcome) ==
    [h EXCEPT !.pc     = "stage",
              !.done   = Append(@, <<Head(h.todo), outcome>>),
              !.todo   = IF returns_early(outcome) THEN <<>> ELSE Tail(@),
              !.result = IF returns_early(outcome) \/ Len(h.todo) = 1 THEN outcome ELSE @]

\* create_seeds, collect_coverage, report_coverage: external tools that
\* succeed or fail
StageExternal ==
    /\ harness.pc = "stage"
    /\ harness.todo # <<>>
    /\ Head(harness.todo) # "fuse_seeds"
    /\ \E outcome \in {"Ok", "Err"} : harness' = after_stage(harness, outcome)
    /\ UNCHANGED fusion
    /\ MainFrame

\* fuse_seeds up to CNTGProgram::new: Deopt::new or read_sort_dir fails, or
\* the programs of the seed directory go into one batch
FuseSeedsStart ==
    /\ harness.pc = "stage"
    /\ harness.todo # <<>>
    /\ Head(harness.todo) = "fuse_seeds"
    /\ cpc = "idle"
    /\ \/ /\ harness' = after_stage(harness, "Err")
          /\ UNCHANGED fusion
       \/ /\ \E n \in 0..MaxPrograms, m \in SUBSET (1..MaxPrograms) :
               /\ m \subseteq 1..n
               /\ cntg' = [programs |-> Seeds(n), batch |-> n, missing |-> m]
          /\ cpc' = "new"
          /\ harness' = [harness EXCEPT !.pc = "fusing"]
          /\ UNCHANGED <<driver_dir, cntg_dir, synth, workers, compile, results>>
    /\ MainFrame

\* fuse_seeds returns what its last stage returned; a panic of compile ends
\* the process
FuseSeedsReturn ==
    /\ harness.pc = "fusing"
    /\ results # <<>>
    /\ Len(results) = 3 \/ returns_early(results[Len(results)][2])
    /\ LET outcome == results[Len(results)][2]
       IN  harness' = IF outcome = "panic"
                      THEN [harness EXCEPT !.pc = "exited",
                                           !.done = Append(@, <<"fuse_seeds", "panic">>),
                                           !.exit = "panic"]
                      ELSE after_stage(harness, outcome)
    /\ UNCHANGED fusion
    /\ MainFrame

\* main returns the exit code
MainExit ==
    /\ harness.pc = "stage"
    /\ harness.todo = <<>>
    /\ harness' = [harness EXCEPT !.pc = "exited", !.exit = exit_code(harness.result)]
    /\ UNCHANGED fusion
    /\ MainFrame

NextMain ==
    \/ MainStart
    \/ StageExternal
    \/ FuseSeedsStart
    \/ FuseSeedsReturn
    \/ MainExit
    \/ (harness.pc = "fusing" /\ NextFusion)
    \/ (harness.pc = "fusing" /\ NextCompile)

SpecMain == InitMain /\ [][NextMain]_vars

(***************************************************************************)
(* The pair feedback of one ApiCombination round, fuzzer.rs lines 390-429, *)
(* statement by statement, with the RwLock of discovered_api_pairs.        *)
(***************************************************************************)
drop_guard_outlives_loop(lock) == lock

\* discovered_pairs_guard goes out of scope at the end of the body of
\* `for program in programs`, and when `?` returns from within it
drop_guard(lock) == "free"

\* RwLock::write and RwLock::read return when no guard the other would
\* exclude is alive
can_write(lock) == lock = "free"
can_read(lock) == lock # "write"

InitFeedback ==
    /\ config = ShuffleConfig
    /\ FreshButPairs
    /\ discovered_api_pairs \in {{}, {<<"a1", "a2">>}}
    /\ call \in {[op |-> "feedback", args |-> programs] :
                    programs \in SeqsUpTo(CallSeqs, MaxFeedbackPrograms) \ {<<>>}}
    /\ ret = <<>>
    /\ prev_run = NoRun
    /\ NoLocals
    /\ NoFusion

FeedbackFrame ==
    UNCHANGED <<call, prev_run, assemble, harness, fusion, report, config, pc, quiet_round,
                seed_id, succ_programs, rc_succ, rc_total, loop_cnt, has_checked, prompt,
                global_cov, energies, seed_queue, disk, history>>

\* `let mut round_newly_discovered_pairs = HashSet::new();`
PairsStart ==
    /\ call.op = "feedback"
    /\ feedback.pc = "idle"
    /\ feedback' = [pc |-> "save", i |-> 1, pairs |-> <<>>, lock |-> "free",
                    round_new |-> {}, bare_inserts |-> 0]
    /\ UNCHANGED <<ret, discovered_api_pairs>>
    /\ FeedbackFrame

\* `self.deopt.save_succ_program(&program)?` and the extraction of the pairs
PairsSave ==
    /\ feedback.pc = "save"
    /\ \/ /\ feedback' = [feedback EXCEPT
                            !.pc = "write",
                            !.pairs = extract_2gram_pairs(call.args[feedback.i])]
          /\ UNCHANGED ret
       \/ /\ feedback' = [feedback EXCEPT !.pc = "returned"]
          /\ ret' = <<"Err">>
    /\ UNCHANGED discovered_api_pairs
    /\ FeedbackFrame

\* `self.observer.discovered_api_pairs.write().unwrap()`
PairsWriteLock ==
    /\ feedback.pc = "write"
    /\ can_write(feedback.lock)
    /\ feedback' = [feedback EXCEPT !.pc = "insert", !.lock = "write"]
    /\ UNCHANGED <<ret, discovered_api_pairs>>
    /\ FeedbackFrame

\* one turn of `for pair in pairs`: the insert, and for a new pair the line
\* written to the file, whose failure returns the error
PairsInsert ==
    /\ feedback.pc = "insert"
    /\ feedback.pairs # <<>>
    /\ LET pair  == Head(feedback.pairs)
           new   == pair \notin discovered_api_pairs
           under == IF feedback.lock = "write" THEN 0 ELSE 1
       IN  /\ discovered_api_pairs' = discovered_api_pairs \cup {pair}
           /\ \/ /\ feedback' = [feedback EXCEPT
                                   !.pairs = Tail(@),
                                   !.round_new = IF new THEN @ \cup {pair} ELSE @,
                                   !.bare_inserts = IF @ + under > 1 THEN 1 ELSE @ + under]
                 /\ UNCHANGED ret
              \/ /\ new
                 /\ feedback' = [feedback EXCEPT
                                   !.pc = "returned",
                                   !.lock = drop_guard(@),
                                   !.bare_inserts = IF @ + under > 1 THEN 1 ELSE @ + under]
                 /\ ret' = <<"Err">>
    /\ FeedbackFrame

\* the end of the body of `for program in programs`
PairsNextProgram ==
    /\ feedback.pc = "insert"
    /\ feedback.pairs = <<>>
    /\ feedback' = [feedback EXCEPT
                      !.lock = drop_guard(@),
                      !.i = @ + 1,
                      !.pc = IF feedback.i = Len(call.args) THEN "summary" ELSE "save"]
    /\ UNCHANGED <<ret, discovered_api_pairs>>
    /\ FeedbackFrame

\* the round summary: `self.observer.discovered_api_pairs.read().unwrap()`
PairsReadLock ==
    /\ feedback.pc = "summary"
    /\ can_read(feedback.lock)
    /\ feedback' = [feedback EXCEPT !.pc = "len", !.lock = "read"]
    /\ UNCHANGED <<ret, discovered_api_pairs>>
    /\ FeedbackFrame

\* `.len()`, and the read guard is dropped at the end of the statement
PairsSummary ==
    /\ feedback.pc = "len"
    /\ feedback' = [feedback EXCEPT !.pc = "returned", !.lock = "free"]
    /\ ret' = <<Cardinality(discovered_api_pairs)>>
    /\ UNCHANGED discovered_api_pairs
    /\ FeedbackFrame

NextFeedback ==
    \/ PairsStart
    \/ PairsSave
    \/ PairsWriteLock
    \/ PairsInsert
    \/ PairsNextProgram
    \/ PairsReadLock
    \/ PairsSummary

SpecFeedback == InitFeedback /\ [][NextFeedback]_vars

(***************************************************************************)
(* change_driver_id applied on its own to small texts.                     *)
(***************************************************************************)
\* what a driver text is made of
Pieces ==
    {function_name, <<"_", "1">>, <<"1">>, <<"t", "e", "s", "t", "_">>,
     <<"(", ")">>, SubSeq(function_name, 2, Len(function_name))}

RECURSIVE Texts(_)
Texts(n) ==
    IF n = 0 THEN {<<>>}
    ELSE Texts(n - 1) \cup {t \o p : t \in Texts(n - 1), p \in Pieces}

DriverIds == {1, 11}

InitRename ==
    /\ config = ShuffleConfig
    /\ Fresh
    /\ NoFusion
    /\ call \in {[op |-> "change_driver_id", args |-> <<buf, id>>] :
                    buf \in Texts(MaxPieces), id \in DriverIds}
    /\ ret = <<>>
    /\ prev_run = NoRun
    /\ NoLocals

ApplyChangeDriverId ==
    /\ call.op = "change_driver_id"
    /\ ret = <<>>
    /\ ret' = <<change_driver_id(call.args[1], call.args[2])>>
    /\ UNCHANGED <<call, prev_run, locals, fusion, report, config, pc, quiet_round, seed_id,
                   succ_programs, rc_succ, rc_total, loop_cnt, has_checked, prompt,
                   global_cov, discovered_api_pairs, energies, seed_queue,
                   disk, history>>

NextRename == ApplyChangeDriverId

SpecRename == InitRename /\ [][NextRename]_vars

(***************************************************************************)
(* The scratch names of two programs, the earlier one first.               *)
(***************************************************************************)
\* positions in the input: the first ones, and those around the first
\* number that has more digits than the name is wide
Positions ==
    0..MaxPosition \cup
    {Pow(10, NAME_WIDTH - 1) + d : d \in 0..1} \cup
    {Pow(10, NAME_WIDTH) + d : d \in {-2, -1, 0, 1}}

InitNames ==
    /\ config = ShuffleConfig
    /\ Fresh
    /\ NoFusion
    /\ call \in {[op |-> "scratch_name", args |-> <<i, j>>] :
                    i \in Positions, j \in Positions}
    /\ call.args[1] < call.args[2]
    /\ ret = <<>>
    /\ prev_run = NoRun
    /\ NoLocals

ApplyScratchName ==
    /\ call.op = "scratch_name"
    /\ ret = <<>>
    /\ ret' = <<scratch_name(call.args[1]), scratch_name(call.args[2])>>
    /\ UNCHANGED <<call, prev_run, locals, fusion, report, config, pc, quiet_round, seed_id,
                   succ_programs, rc_succ, rc_total, loop_cnt, has_checked, prompt,
                   global_cov, discovered_api_pairs, energies, seed_queue,
                   disk, history>>

NextNames == ApplyScratchName

SpecNames == InitNames /\ [][NextNames]_vars

(***************************************************************************)
(* extract_2gram_pairs applied on its own to short call sequences.         *)
(***************************************************************************)
\* the callees extract_function_calls may report, a non-API one included
Callees == {"a1", "a2", "printf"}

InitPairs ==
    /\ config = ShuffleConfig
    /\ Fresh
    /\ NoFusion
    /\ call \in {[op |-> "extract_2gram_pairs", args |-> calls] :
                    calls \in SeqsUpTo(Callees, MaxCalls)}
    /\ ret = <<>>
    /\ prev_run = NoRun
    /\ NoLocals

ApplyExtract2gramPairs ==
    /\ call.op = "extract_2gram_pairs"
    /\ ret = <<>>
    /\ ret' = <<extract_2gram_pairs(call.args)>>
    /\ UNCHANGED <<call, prev_run, locals, fusion, report, config, pc, quiet_round, seed_id,
                   succ_programs, rc_succ, rc_total, loop_cnt, has_checked, prompt,
                   global_cov, discovered_api_pairs, energies, seed_queue,
                   disk, history>>

NextPairs == ApplyExtract2gramPairs

SpecPairs == InitPairs /\ [][NextPairs]_vars

(***************************************************************************)
(* Properties.                                                             *)
(***************************************************************************)

\* C1: in both generation modes fuzz_loop is past its round loop (minimizing
\* or returned Ok) only with quiet_round >= fuzz_converge_round.
C1_LeavesLoopOnlyConverged ==
    pc \in {"minimize", "done"} => quiet_round >= config.fuzz_converge_round

C3_QuietRoundFollowsRound ==
    [][(/\ pc = "feedback"
        /\ pc' = "top"
        /\ config.generation_mode = "FuzzDriver"
        /\ ~config.recheck)
       => /\ last_round' = "new" => quiet_round' = 0
          /\ last_round' = "quiet" => quiet_round' = quiet_round + 1]_vars

\* C4: the generation step has returned exactly when the accepted programs
\* have reached fuzz_round_succ or should_shuffle(round successes, round
\* total) is true, and no program it returns was rejected.
C4_ReturnsOnQuotaOrShuffle ==
    /\ pc = "feedback" =>
         \/ Len(succ_programs) >= config.fuzz_round_succ
         \/ should_shuffle(round_succ, round_total)
    /\ (pc = "gen" /\ round_total > 0) =>
         /\ Len(succ_programs) < config.fuzz_round_succ
         /\ ~should_shuffle(round_succ, round_total)
    /\ ProgramIds(succ_programs) \cap err_round = {}

\* C5: the generation step of a round returns after finitely many
\* handler.generate calls, whatever the handler answers.
C5_GenerationStepReturns ==
    (pc = "gen") ~> (pc # "gen")

C7_IdsStrictlyIncrease ==
    /\ \A i \in 1..(Len(assigned) - 1) : assigned[i] < assigned[i + 1]
    /\ \A i \in 1..Len(assigned) : assigned[i] < seed_id

\* C7: a second round has assigned ids after a first one that saw both an
\* accepted and a rejected candidate
C7_Witness ==
    /\ loop_cnt >= 1
    /\ round_total >= 1
    /\ Len(assigned) > round_total + 1
    /\ n_accepted >= 1
    /\ n_err_saved >= 1

\* C8, as stated: only accepted programs consume an id, so the accepted
\* programs of a run have the ids 0, 1, 2, ... without gaps.
C8_IdsAtAcceptance ==
    /\ seed_id = n_accepted
    /\ n_accepted > 0 => last_accepted = n_accepted - 1

\* C8, amended: every candidate the handler returns consumes an id before it
\* is validated, so the next id is the number of accepted plus rejected
\* candidates so far, and the ids of the accepted programs increase strictly
\* but may skip the ids of rejected candidates.
C8_IdsAtGeneration ==
    /\ seed_id = n_accepted + n_err_saved
    /\ last_accepted < seed_id
    /\ last_accepted >= n_accepted - 1
    /\ \A i, j \in 1..Len(succ_programs) :
         i < j => succ_programs[i].id < succ_programs[j].id
    /\ \A i \in 1..Len(succ_programs) : succ_programs[i].id <= last_accepted

\* C8: an accepted program whose id is past the number of accepted programs,
\* a rejected candidate having taken an id before it
C8_Witness ==
    /\ n_err_saved >= 1
    /\ n_accepted >= 1
    /\ last_accepted > n_accepted - 1

\* C9: every candidate of a round is classified once, as accepted or as
\* rejected; a rejected candidate is saved with its diagnostic, is not among
\* the accepted programs, and is not among the programs whose coverage or
\* API pairs the round merges.
C9_RejectedStayOut ==
    /\ err_round \cap ProgramIds(succ_programs) = {}
    /\ Cardinality(err_round) + Len(succ_programs) = round_total
    /\ Cardinality(ProgramIds(succ_programs)) = Len(succ_programs)
    /\ n_err_saved + n_accepted = Len(assigned)
    /\ fed_round \subseteq ProgramIds(succ_programs)
    /\ fed_round \cap err_round = {}
    /\ seed_queue \cap err_round = {}

\* C9: a round that rejected one candidate and accepted another has merged
\* its feedback and the loop goes on
C9_Witness ==
    /\ pc = "top"
    /\ loop_cnt >= 1
    /\ err_round # {}
    /\ fed_round # {}

\* C10: in both generation modes, after a round the next Prompt is a random
\* fresh combination when power scheduling is disabled, and is chosen with
\* the scheduler's energies when it is enabled.
C10_PromptFollowsPowerSchedule ==
    loop_cnt > 0 =>
        IF config.disable_power_schedule
        THEN prompt.by = "random"
        ELSE prompt.by \in {"energy", "mutate"}

\* C11: every round of the fuzz loop, in both modes and also when all its
\* candidates were rejected, ends with a round summary that carries the
\* current quiet_round, logged before the next round starts.
C11_EveryRoundSummarised ==
    (pc \in {"top", "minimize", "done"} /\ loop_cnt > 0) =>
        summary = [loop |-> loop_cnt, quiet_round |-> quiet_round]

\* C12: corpus minimization is invoked at most once in a run and only after
\* the round loop has ended, exactly once when the run returns Ok, with
\* minimize in FuzzDriver mode and minimize_by_api_pairs in ApiCombination
\* mode; a run whose loop returned an error has invoked none.
C12_MinimizeOnceAfterLoop ==
    LET expected == IF config.generation_mode = "FuzzDriver"
                    THEN <<"minimize">>
                    ELSE <<"minimize_by_api_pairs">>
    IN  /\ pc \in {"start", "top", "gen", "feedback", "minimize"} => minimize_calls = <<>>
        /\ pc = "done" => minimize_calls = expected
        /\ (pc = "error" /\ left_by = "none") => minimize_calls = <<>>
        /\ (pc = "error" /\ left_by # "none") => minimize_calls = expected

\* C12: an ApiCombination run has returned Ok after at least one round
C12_Witness ==
    /\ pc = "done"
    /\ config.generation_mode = "ApiCombination"
    /\ loop_cnt >= 1
    /\ minimize_calls = <<"minimize_by_api_pairs">>

\* C13: when fuzz_loop starts after an interrupted run, the first round
\* begins with the quiet_round that run logged and, in ApiCombination mode,
\* with the energies its scheduler had.
C13_ResumedStateRestored ==
    (pc \in {"top", "gen"} /\ loop_cnt = 0) =>
        /\ quiet_round = prev_run.quiet_round
        /\ config.generation_mode = "ApiCombination" => energies = prev_run.energies

\* C14: when synthesis returns Ok for N programs and batch size B >= 1, the
\* output holds exactly ceil(N/B) batches; every driver is in exactly one
\* of them, each is a contiguous run of input positions, each but the last
\* has B members and the last has between 1 and B.
C14_BatchesPartitionDrivers ==
    (cpc = "fused" /\ cntg.batch >= 1) =>
        LET N == Len(cntg.programs)
            B == cntg.batch
        IN  /\ Cardinality(cntg_dir) = (N + B - 1) \div B
            /\ \A i \in 0..(N - 1) :
                   Cardinality({core \in cntg_dir : i \in MemberPositions(core)}) = 1
            /\ \A core \in cntg_dir :
                LET P == MemberPositions(core)
                IN  /\ P # {}
                    /\ P \subseteq 0..(N - 1)
                    /\ Cardinality(P) = Cardinality(core.members)
                    /\ \A i \in P : i + 1 \in P \/ \A j \in P : j <= i
                    /\ IF N - 1 \in P THEN Cardinality(P) \in 1..B
                       ELSE Cardinality(P) = B

\* C14: 7 programs were fused with batch size 3 into batches of 3, 3 and 1
C14_Witness ==
    /\ cpc = "fused"
    /\ Len(cntg.programs) = 7
    /\ cntg.batch = 3
    /\ {<<CoreId(core), Cardinality(core.members)>> : core \in cntg_dir}
           = {<<0, 3>>, <<1, 3>>, <<2, 1>>}

\* C15, as stated: in every fused core with k members the suffixes declared
\* and called in core.cc are exactly 0..k-1.
C15_SuffixesDenseFromZero ==
    \A core \in cntg_dir :
        /\ Range(DeclaredSuffixes(core)) = 0..(Len(core.batch) - 1)
        /\ Range(CalledSuffixes(core)) = 0..(Len(core.batch) - 1)

\* C15, amended: the suffixes declared and called in the core.cc of a core
\* with k members are the positions of its members in the sorted driver
\* list, first..first+k-1 in this order, where first is the number of
\* drivers fused into the cores before it (its core id times the batch
\* size); only the progress messages count 0..k-1.
C15_SuffixesAreDriverPositions ==
    \A core \in cntg_dir :
        LET k     == Len(core.batch)
            first == CoreId(core) * cntg.batch
        IN  /\ DeclaredSuffixes(core) = [j \in 1..k |-> first + j - 1]
            /\ CalledSuffixes(core) = [j \in 1..k |-> first + j - 1]
            /\ \A j \in 1..k :
                   CoreLines(core, "progress")[j].text = to_string(j - 1)
            /\ \A earlier \in cntg_dir :
                   CoreId(earlier) < CoreId(core) => Len(earlier.batch) = cntg.batch

\* C15: a second core declares the suffixes 3, 4, 5
C15_Witness ==
    \E core \in cntg_dir :
        /\ CoreId(core) = 1
        /\ DeclaredSuffixes(core) = <<3, 4, 5>>
        /\ CalledSuffixes(core) = <<3, 4, 5>>

\* C16: within every fused core no two members are written with the same
\* entry-function suffix, and core.cc declares and calls only entry
\* functions whose ordinals are input positions of that core's own batch.
C16_SuffixesUniqueAndOwn ==
    \A core \in cntg_dir :
        /\ \A m1, m2 \in core.members : m1.driver_id = m2.driver_id => m1 = m2
        /\ \A m \in core.members : m.driver_id = InputPosition(m.name)
        /\ Range(DeclaredSuffixes(core)) \subseteq BatchOf(core)
        /\ Range(CalledSuffixes(core)) \subseteq BatchOf(core)
        /\ \A other \in cntg_dir \ {core} :
               /\ BatchOf(other) \cap BatchOf(core) = {}
               /\ Range(DeclaredSuffixes(core)) \cap BatchOf(other) = {}
               /\ Range(CalledSuffixes(core)) \cap BatchOf(other) = {}

\* C16: two cores with two members each were fused
C16_Witness ==
    /\ cpc = "fused"
    /\ \E c1, c2 \in cntg_dir :
        /\ c1 # c2
        /\ Cardinality(c1.members) = 2
        /\ Cardinality(c2.members) = 2

\* C17: every core.cc declares the renamed entry function of each member
\* of its batch exactly once, its main calls each declared function exactly
\* once and in increasing ordinal order, and exactly one progress message
\* stands immediately before each call.
C17_CoreDeclaresThenCallsInOrder ==
    \A core \in cntg_dir :
        LET L     == core.core_cc
            decls == CoreLines(core, "decl")
            calls == CoreLines(core, "call")
            main  == CHOOSE x \in 1..Len(L) : L[x].kind = "main"
        IN  /\ Len(decls) = Len(core.batch)
            /\ \A i \in BatchOf(core) :
                   Cardinality({j \in 1..Len(decls) : decls[j].text = suffixed_name(i)}) = 1
            /\ Len(calls) = Len(decls)
            /\ \A j \in 1..Len(decls) :
                   Cardinality({m \in 1..Len(calls) : calls[m].text = decls[j].text}) = 1
            /\ \A m \in 1..(Len(calls) - 1) :
                   CalledSuffixes(core)[m] < CalledSuffixes(core)[m + 1]
            /\ Cardinality({x \in 1..Len(L) : L[x].kind = "main"}) = 1
            /\ \A x \in 1..Len(L) :
                /\ L[x].kind = "decl" => x < main
                /\ L[x].kind = "call" => x > main + 1 /\ L[x - 1].kind = "progress"
                /\ L[x].kind = "progress" => x > main /\ x < Len(L) /\ L[x + 1].kind = "call"

\* C17: a core.cc with three members has been written
C17_Witness ==
    \E core \in cntg_dir :
        /\ Len(CoreLines(core, "decl")) = 3
        /\ Len(CoreLines(core, "call")) = 3
        /\ Len(CoreLines(core, "progress")) = 3

\* C18: in every core directory the suffixes the member files were written
\* with are the suffixes core.cc declares, and the member written with
\* suffix i is its scratch copy with every occurrence of the entry function
\* name replaced by the name with suffix i.
C18_MembersMatchCore ==
    \A core \in cntg_dir :
        /\ {m.driver_id : m \in core.members} = Range(DeclaredSuffixes(core))
        /\ \A m \in core.members :
            \E f \in driver_dir :
                /\ f.name = m.name
                /\ m.text = replace(f.text, function_name, suffixed_name(m.driver_id))
                /\ \E j \in 1..Len(CoreLines(core, "decl")) :
                       CoreLines(core, "decl")[j].text = suffixed_name(m.driver_id)

\* C19: renaming the entry function of a driver text for an ordinal and
\* then replacing every occurrence of the suffixed name by the entry
\* function name gives back the text.
C19_RenameRoundTrip ==
    (call.op = "change_driver_id" /\ ret # <<>>) =>
        replace(ret[1], suffixed_name(call.args[2]), function_name) = call.args[1]

\* C19: a text that already holds a suffixed name next to a plain one was
\* renamed, and the renaming changed it
C19_Witness ==
    /\ call.op = "change_driver_id"
    /\ ret # <<>>
    /\ call.args[1] = function_name \o function_name \o <<"_", "1">>
    /\ call.args[2] = 1
    /\ ret[1] # call.args[1]

\* C20: the scratch names of two input positions are distinct, and the name
\* of the earlier position comes first in the sorted directory.
C20_ScratchNamesKeepInputOrder ==
    (call.op = "scratch_name" /\ ret # <<>>) =>
        /\ ret[1] # ret[2]
        /\ path_less(ret[1], ret[2])

\* C21: once compile is over with at least one worker spawned, every worker
\* has terminated and compile has returned: Err if at least one worker
\* failed, Ok if none did.
C21_CompileReturnsErrIffWorkerFailed ==
    (compile.pc \in {"returned", "panicked"} /\ compile.handles # <<>>) =>
        LET failed == \E d \in DOMAIN workers : workers[d].st = "panicked"
        IN  /\ \A d \in DOMAIN workers : Terminated(workers[d])
            /\ compile.pc = "returned"
            /\ compile.result = IF failed THEN "Err" ELSE "Ok"

\* C22: when compile is over, whatever it reports, every core directory
\* has had its worker, every worker has run to its end, and each worker
\* that did not fail itself has left the core binary and the init-file
\* copy in its directory.
C22_OtherWorkersFinish ==
    (compile.pc \in {"returned", "panicked"} /\ compile.handles # <<>>) =>
        /\ DOMAIN workers = CoreDirs
        /\ \A d \in DOMAIN workers :
            /\ Terminated(workers[d])
            /\ workers[d].st = "done" => workers[d].core /\ workers[d].init_file

\* C22: compile returned Err for the first worker it joined, and a worker
\* it never joined has finished with both artifacts
C22_Witness ==
    /\ compile.pc = "returned"
    /\ compile.result = "Err"
    /\ compile.joined = 1
    /\ workers[compile.handles[1]].st = "panicked"
    /\ \E j \in 2..Len(compile.handles) :
        /\ workers[compile.handles[j]].st = "done"
        /\ workers[compile.handles[j]].core
        /\ workers[compile.handles[j]].init_file

\* C23: a fusion whose transform or synthesis failed on a file operation
\* leaves no core directory in the fused-output tree.
C23_FailedRunLeavesNoCore ==
    cpc = "failed" => cntg_dir = {}

\* C24: in fuse_seeds, an input program that cannot be read makes transform
\* return an error; after an error of transform neither synthesis nor
\* compile runs, and every batch that is fused, and every batch that gets a
\* compile worker, is made of all the input programs.
C24_TransformErrorStopsPipeline ==
    /\ (cntg.missing # {} /\ cpc # "new") => results[1] = <<"transform", "Err">>
    /\ (results # <<>> /\ results[1] = <<"transform", "Err">>) =>
        /\ Len(results) = 1
        /\ cntg_dir = {}
        /\ synth = NoSynthesis
        /\ workers = <<>>
        /\ compile = NoCompile
    /\ \A core \in cntg_dir :
        /\ BatchOf(core) = 0..(Len(cntg.programs) - 1)
        /\ core.dir \in DOMAIN workers =>
               MemberPositions(core) = 0..(Len(cntg.programs) - 1)

\* C24: of three input programs the second cannot be read, and transform
\* has failed after copying the first
C24_Witness ==
    /\ cntg.missing = {2}
    /\ Len(cntg.programs) = 3
    /\ results = <<<<"transform", "Err">>>>
    /\ Cardinality(driver_dir) = 1
    /\ cpc = "failed"

\* C25: whatever an earlier run has left in the scratch and fused-output
\* trees, after a fusion that returns Ok the scratch tree holds exactly the
\* copies of the current input and the output tree exactly the core
\* directories and members derived from it; over the output of an earlier
\* run on the same input the result is that same tree.
C25_OutputDerivedFromInputOnly ==
    cpc = "fused" =>
        LET input == Seeds(Len(cntg.programs))
        IN  /\ driver_dir = Range(clone_programs(input))
            /\ cntg_dir = DerivedTree(input, cntg.batch)
            /\ \A core \in cntg_dir :
                /\ Cardinality(core.members) = Len(core.batch)
                /\ \A mem \in core.members :
                       \E k \in 1..Len(input) :
                           /\ mem.name = scratch_name(k - 1)
                           /\ mem.text = change_driver_id(input[k].text, k - 1)

\* C25: one program was fused over the trees of an earlier run of two
\* other programs
C25_Witness ==
    /\ cpc = "fused"
    /\ call.args = <<"other", 2>>
    /\ Len(cntg.programs) = 1
    /\ Cardinality(cntg_dir) = 1
    /\ Cardinality(driver_dir) = 1

\* C26: when update_energies returns, the scheduler holds one record for
\* every catalog API and no other, and the energy of each is
\* (1 - coverage) / ((1 + exec count) * (1 + prompt count)) with the coverage
\* supplied and the counters of that API at the call, whatever records the
\* scheduler held before.
C26_UpdateEnergiesRebuildsAll ==
    (call.op = "update_energies" /\ ret # <<>> /\ ~ret[1].panicked) =>
        /\ DOMAIN ret[1].seeds = APIs
        /\ \A a \in APIs :
            LET cov   == call.args[2][a]
                count == 1 + unwrap_or_0(call.args[3], a)
                round == 1 + unwrap_or_0(call.args[4], a)
                e     == ret[1].seeds[a]
            IN  /\ e[2] > 0
                /\ e[1] * (cov[2] * count * round) = (cov[2] - cov[1]) * e[2]

\* C26: update_energies returned on a scheduler whose record of a1 had
\* energy 2, with exec and prompt counts of a1, and the record changed
C26_Witness ==
    /\ call.op = "update_energies"
    /\ ret # <<>>
    /\ ~ret[1].panicked
    /\ call.args[1] # NoSeeds
    /\ call.args[1]["a1"] = <<2, 1>>
    /\ unwrap_or_0(call.args[3], "a1") = 2
    /\ unwrap_or_0(call.args[4], "a1") = 1
    /\ ret[1].seeds["a1"] = <<1, 12>>

\* C27: update_energies with a coverage map that lacks a catalog API panics
\* and leaves no records made with a coverage in its place.
C27_MissingCoverageAborts ==
    (call.op = "update_energies" /\ ret # <<>>) =>
        (ret[1].panicked <=> \E a \in APIs : a \notin DOMAIN call.args[2])

\* C27: update_energies panicked on a coverage map without a3
C27_Witness ==
    /\ call.op = "update_energies"
    /\ ret # <<>>
    /\ ret[1].panicked
    /\ DOMAIN call.args[2] = APIs \ {"a3"}

\* C28: an operation of the scheduler that looks up a name that has no
\* record panics.
C28_UnregisteredLookupAborts ==
    ret # <<>> =>
        LET seeds == call.args[1]
            names == CASE call.op = "choose_low_energy_api" -> Range(call.args[2])
                       [] call.op = "update_energies_from_api_pairs" ->
                              {p[1] : p \in call.args[2]} \cup {p[2] : p \in call.args[2]}
                       [] call.op = "get_seed_by_name" -> {call.args[2]}
                       [] OTHER -> {}
        IN  (\E name \in names : name \notin DOMAIN seeds) => ret[1].panicked

\* C29: update_energies_from_api_pairs keeps the registered names; with no
\* pairs it keeps every energy, otherwise the energy of each API grows by
\* the number of pairs in which the API takes part.
C29_EnergyGrowsByParticipation ==
    (call.op = "update_energies_from_api_pairs" /\ ret # <<>>) =>
        LET before == call.args[1]
            after  == ret[1].seeds
            pairs  == call.args[2]
        IN  /\ ~ret[1].panicked
            /\ DOMAIN after = DOMAIN before
            /\ pairs = {} => after = before
            /\ \A a \in DOMAIN before :
                /\ after[a][2] = before[a][2]
                /\ after[a][1] = before[a][1] + after[a][2] *
                       Cardinality({p \in pairs : p[1] = a \/ p[2] = a})

\* C30: in an ApiCombination run, from the initialisation of the energies on,
\* every catalog API has an energy record of at least 1, and no step of a
\* round lowers the energy of any API.
C30_ApiEnergiesAtLeastOneAndGrow ==
    [][config.generation_mode = "ApiCombination" =>
        /\ pc' # "start" =>
            /\ DOMAIN energies' = APIs
            /\ \A a \in APIs : energies'[a][2] > 0 /\ energies'[a][1] >= energies'[a][2]
        /\ pc # "start" =>
            \A a \in APIs :
                energies'[a][1] * energies[a][2] >= energies[a][1] * energies'[a][2]]_vars

\* C30: after a round of an ApiCombination run the energy of a1 is 2 and
\* that of a3 still 1
C30_Witness ==
    /\ config.generation_mode = "ApiCombination"
    /\ pc # "start"
    /\ loop_cnt >= 1
    /\ energies["a1"] = <<2, 1>>
    /\ energies["a3"] = <<1, 1>>

\* C31: for every coverage in [0,1], every u32 exec_count and prompt_count
\* and every exponent, compute_energy returns a finite value that is not
\* negative, whose denominator is ((1 + exec_count) * (1 + prompt_count)) ^
\* exponent, and a call with exec_count or prompt_count one higher returns
\* a strictly smaller value.
C31_EnergyFiniteExactAndDecreasing ==
    (call.op = "compute_energy" /\ ret # <<>>) =>
        LET coverage == call.args[1]
            ec       == call.args[2]
            pc0      == call.args[3]
            x        == call.args[4]
            e        == ret[1]
            MaxU32   == <<255, 255, 255, 255>>
            RECURSIVE PowFull(_, _)
            PowFull(b, n) == IF n = 0 THEN <<1>> ELSE Mul(PowFull(b, n - 1), b)
            bottom   == PowFull(Mul(Add(<<1>>, ec), Add(<<1>>, pc0)), x)
            Smaller(o) == /\ o.kind = "finite"
                          /\ o.top[1] > 0
                          /\ f32_less(e.bottom, o.bottom)
        IN  /\ e.kind = "finite"
            /\ e.top[1] >= 0
            /\ e.top = <<coverage[2] - coverage[1], coverage[2]>>
            /\ Len(bottom) <= U32_BYTES
            /\ e.bottom = as_f32(bottom)
            /\ ec # MaxU32 =>
                 \A o \in Seed_compute_energy(coverage, Add(ec, <<1>>), pc0, x) : Smaller(o)
            /\ pc0 # MaxU32 =>
                 \A o \in Seed_compute_energy(coverage, ec, Add(pc0, <<1>>), x) : Smaller(o)

C33_AssemblyReturns ==
    (call.op = "assemble_high_energy_combiantion" /\ call.args[2] <= Cardinality(APIs))
        ~> (ret # <<>>)

\* C34: no step of the fuzz loop removes a pair from the discovered pairs,
\* and the feedback of an ApiCombination round reinforces the energies with
\* exactly the pairs the round has added to them: a pair that was there
\* before is not counted as new again.
C34_PairsGrowAndCountOnce ==
    [][/\ discovered_api_pairs \subseteq discovered_api_pairs'
       /\ (pc = "feedback" /\ pc' # "error" /\ config.generation_mode = "ApiCombination") =>
            LET added == discovered_api_pairs' \ discovered_api_pairs
            IN  /\ energies' = IF added = {} THEN energies
                               ELSE update_energies_from_api_pairs(energies, added)
                /\ (added = {}) = (last_round' # "new")]_vars

\* C34: a second round brought the pair of the first round again and
\* nothing was counted
C34_Witness ==
    /\ config.generation_mode = "ApiCombination"
    /\ loop_cnt = 2
    /\ discovered_api_pairs = {<<"a1", "a2">>}
    /\ last_round = "quiet"
    /\ energies["a1"] = <<2, 1>>

\* C35: when main returns, the exit code is FAILURE exactly when a stage of
\* the subcommand returned an error; the stages that ran are the first ones
\* of the subcommand in its order (create_seeds, fuse_seeds, report_coverage
\* for `all`), every one before the last returned Ok, and all of them ran
\* unless the last one that ran failed.
C35_ExitCodeAndStageOrder ==
    (harness.pc = "exited" /\ harness.exit # "panic") =>
        LET stages == command_stages(call.args[1])
            done   == harness.done
            n      == Len(done)
        IN  /\ harness.exit \in {"SUCCESS", "FAILURE"}
            /\ (harness.exit = "FAILURE") = (\E k \in 1..n : done[k][2] = "Err")
            /\ n >= 1 /\ n <= Len(stages)
            /\ \A k \in 1..n : done[k][1] = stages[k]
            /\ \A k \in 1..(n - 1) : done[k][2] = "Ok"
            /\ n < Len(stages) => done[n][2] = "Err"

\* C35: `all` stopped with FAILURE after create_seeds returned Ok and the
\* synthesis of fuse_seeds failed, without report_coverage
C35_Witness ==
    /\ harness.pc = "exited"
    /\ call.args = <<"all">>
    /\ harness.exit = "FAILURE"
    /\ harness.done = <<<<"create_seeds", "Ok">>, <<"fuse_seeds", "Err">>>>
    /\ Len(results) = 2

\* C36: the feedback of an ApiCombination round.  If an accepted program
\* brings a pair that is not yet discovered, quiet_round ends at 0 and the
\* energies are reinforced with exactly the pairs that were not discovered
\* before; if programs were accepted and none brings such a pair,
\* quiet_round grows by one and the energies stay; if no program was
\* accepted, quiet_round, the energies and the discovered pairs stay and the
\* Prompt is assembled anew.
C36_ApiRoundFeedback ==
    [][(pc = "feedback" /\ pc' # "error" /\ config.generation_mode = "ApiCombination") =>
        LET round_pairs == UNION {Range(extract_2gram_pairs(succ_programs[i].calls)) :
                                     i \in 1..Len(succ_programs)}
            novel       == round_pairs \ discovered_api_pairs
        IN  /\ discovered_api_pairs' = discovered_api_pairs \cup round_pairs
            /\ novel # {} =>
                 /\ quiet_round' = 0
                 /\ energies' = update_energies_from_api_pairs(energies, novel)
            /\ (Len(succ_programs) > 0 /\ novel = {}) =>
                 /\ quiet_round' = quiet_round + 1
                 /\ energies' = energies
            /\ Len(succ_programs) = 0 =>
                 /\ quiet_round' = quiet_round
                 /\ energies' = energies
            /\ prompt'.by = "energy"
            /\ prompt'.comb \in assemble_high_energy_combiantion(energies')]_vars

\* C36: after a round that discovered a pair, a round without an accepted
\* program has left quiet_round and the energies as they were
C36_Witness ==
    /\ config.generation_mode = "ApiCombination"
    /\ pc = "top"
    /\ last_round = "stuck"
    /\ loop_cnt = 2
    /\ quiet_round = 0
    /\ discovered_api_pairs # {}
    /\ \E a \in APIs : energies[a] = <<2, 1>>

\* C37: in the pair feedback of an ApiCombination round the write lock is
\* held only during the inserts of one program, no insert happens without
\* it, and whenever the loop asks for the write lock or for the read lock of
\* the round summary the lock is free, so the request returns.
C37_WriteLockScopedToProgram ==
    feedback.pc # "idle" =>
        /\ feedback.lock = "write" <=> feedback.pc = "insert"
        /\ feedback.lock = "read" <=> feedback.pc = "len"
        /\ feedback.bare_inserts = 0
        /\ feedback.pc = "write" => can_write(feedback.lock)
        /\ feedback.pc = "summary" => can_read(feedback.lock)
        /\ feedback.pc = "returned" => feedback.lock = "free"

\* C37: the summary was logged after the pairs of two programs had been
\* inserted
C37_Witness ==
    /\ feedback.pc = "returned"
    /\ Len(call.args) = 2
    /\ feedback.i = 3
    /\ ret = <<Cardinality(discovered_api_pairs)>>
    /\ feedback.round_new # {}

\* C38: for a call sequence of n calls extract_2gram_pairs returns n - 1
\* pairs (none when n < 2), the i-th being the i-th call followed by the
\* call after it: duplicates and self-pairs are kept, no pair is reversed
\* and no two calls that are not adjacent are paired.
C38_PairsAreConsecutiveCalls ==
    (call.op = "extract_2gram_pairs" /\ ret # <<>>) =>
        LET c     == call.args
            pairs == ret[1]
        IN  /\ Len(c) < 2 => pairs = <<>>
            /\ Len(c) >= 2 => Len(pairs) = Len(c) - 1
            /\ \A i \in 1..Len(pairs) : pairs[i][1] = c[i] /\ pairs[i][2] = c[i + 1]

\* C38: a sequence whose pairs hold the same self-pair twice and then a
\* pair of two different calls
C38_Witness ==
    /\ call.op = "extract_2gram_pairs"
    /\ call.args = <<"a1", "a1", "a1", "a2">>
    /\ ret = << <<(<<"a1", "a1">>), (<<"a1", "a1">>), (<<"a1", "a2">>)>> >>

\* C39: in both modes the counters should_shuffle reads are zero when a
\* round begins, and throughout the generation step they count the
\* candidates of that round only.
C39_RoundCountersResetEveryRound ==
    /\ (pc = "top" /\ loop_cnt > 0) => (rc_succ = 0 /\ rc_total = 0)
    /\ pc \in {"gen", "feedback"} => (rc_succ = round_succ /\ rc_total = round_total)

\* C40: in FuzzDriver mode has_checked, once set, stays set, so the recheck
\* runs at most once; it is set only at the end of a round, with recheck
\* enabled and quiet_round as the round left it at least
\* fuzz_converge_round / 2 (integer division), and quiet_round is then 0;
\* with recheck disabled it is never set and quiet_round never exceeds
\* fuzz_converge_round.
C40_RecheckOnceAtHalfConvergence ==
    [][config.generation_mode = "FuzzDriver" =>
        LET r     == driver_programs(succ_programs, global_cov)
            q_end == IF r.has_new THEN 0
                     ELSE IF Len(succ_programs) # 0 THEN quiet_round + 1
                     ELSE quiet_round
        IN  /\ has_checked => has_checked'
            /\ (~has_checked /\ has_checked') =>
                 /\ pc = "feedback" /\ pc' = "top"
                 /\ config.recheck
                 /\ 2 * q_end + 1 >= config.fuzz_converge_round
                 /\ quiet_round' = 0
            /\ ~config.recheck =>
                 /\ ~has_checked'
                 /\ quiet_round' <= config.fuzz_converge_round]_vars

\* C40: the recheck has just run after a round that accepted a program and
\* saw nothing new, at half of a convergence of two rounds
C40_Witness ==
    /\ config.generation_mode = "FuzzDriver"
    /\ config.recheck
    /\ config.fuzz_converge_round = 2
    /\ pc = "top"
    /\ has_checked
    /\ last_round = "quiet"
    /\ quiet_round = 0

=============================================================================
